---------------------------- MODULE Spec2Model ----------------------------
(***************************************************************************)
(* A model of the constraint-solving core of loopation: Vector2D, Point,   *)
(* DistanceConstraint, AngleConstraint, Chain and Fabric, and of the hooks *)
(* useAnimationFrame, useChain and useFabric that drive it.                *)
(*                                                                         *)
(* Numbers.  The program computes with IEEE doubles.  The model computes   *)
(* with exact rationals <<n, d>> (d > 0, lowest terms), extended with the  *)
(* non-finite doubles NaN = <<0,0>>, +Infinity = <<1,0>> and               *)
(* -Infinity = <<-1,0>>.  A value the rationals cannot hold (the square    *)
(* root of a non-square, the cosine of pi/8, a fraction whose computation  *)
(* exceeds MaxInt) is the mark Irr = <<0,-1>>, which every operation       *)
(* propagates.  An action is taken only when the state it produces holds   *)
(* no Irr: the model explores exactly the behaviours whose values are      *)
(* rational, and computes those exactly.                                   *)
(*                                                                         *)
(* Angles.  A double that holds an angle is either a rational multiple of  *)
(* pi, <<"pi", q>> (q not a multiple of 1/2), or an angle of [0, pi] given *)
(* by its cosine and sine, <<"arc", c, s>> (c, s rational, s >= 0).  The   *)
(* multiples of pi/2 are written in the second form.                       *)
(***************************************************************************)
EXTENDS Integers, Sequences, FiniteSets, TLC

(***************************************************************************)
(* Rational arithmetic                                                     *)
(***************************************************************************)
Abs(n) == IF n < 0 THEN -n ELSE n

Sign(n) == IF n < 0 THEN -1 ELSE IF n > 0 THEN 1 ELSE 0

RECURSIVE GCD(_, _)
GCD(a, b) == IF b = 0 THEN a ELSE GCD(b, a % b)

\* n/d in lowest terms, d # 0
Q(n, d) ==
    LET g == GCD(Abs(n), Abs(d))
        s == IF d < 0 THEN -1 ELSE 1
    IN  <<s * (n \div g), Abs(d) \div g>>

R(n) == <<n, 1>>

NaN == <<0, 0>>
PosInf == <<1, 0>>
NegInf == <<-1, 0>>
Irr == <<0, -1>>

\* the largest product of integers the model computes; a rational whose
\* computation needs a larger one is treated like a value the rationals cannot hold
MaxInt == 1000000000

\* x * y is at most MaxInt in absolute value
Fits(x, y) == x = 0 \/ Abs(y) <= MaxInt \div Abs(x)

IsIrr(a) == a[2] = -1
IsNaN(a) == a = NaN
IsInf(a) == a[2] = 0 /\ a[1] # 0
IsFinite(a) == a[2] > 0
IsZero(a) == a[2] > 0 /\ a[1] = 0

RNeg(a) == IF IsIrr(a) THEN Irr ELSE <<-a[1], a[2]>>

RAdd(a, b) ==
    IF IsIrr(a) \/ IsIrr(b) THEN Irr
    ELSE IF IsNaN(a) \/ IsNaN(b) THEN NaN
    ELSE IF IsInf(a) THEN (IF IsInf(b) /\ b # a THEN NaN ELSE a)
    ELSE IF IsInf(b) THEN b
    ELSE LET g == GCD(a[2], b[2])
         IN  IF /\ Fits(a[1], b[2] \div g)
                /\ Fits(b[1], a[2] \div g)
                /\ Fits(a[2] \div g, b[2])
             THEN Q(a[1] * (b[2] \div g) + b[1] * (a[2] \div g), (a[2] \div g) * b[2])
             ELSE Irr

RSub(a, b) == RAdd(a, RNeg(b))

RMul(a, b) ==
    IF IsIrr(a) \/ IsIrr(b) THEN Irr
    ELSE IF IsNaN(a) \/ IsNaN(b) THEN NaN
    ELSE IF IsInf(a) \/ IsInf(b)
         THEN (IF a[1] = 0 \/ b[1] = 0 THEN NaN
               ELSE <<Sign(a[1]) * Sign(b[1]), 0>>)
    ELSE LET g == GCD(Abs(a[1]), b[2])
             h == GCD(Abs(b[1]), a[2])
         IN  IF a[1] = 0 \/ b[1] = 0 THEN R(0)
             ELSE IF Fits(a[1] \div g, b[1] \div h) /\ Fits(a[2] \div h, b[2] \div g)
             THEN <<(a[1] \div g) * (b[1] \div h), (a[2] \div h) * (b[2] \div g)>>
             ELSE Irr

\* IEEE division: x/0 is an infinity, 0/0 is NaN
RDiv(a, b) ==
    IF IsIrr(a) \/ IsIrr(b) THEN Irr
    ELSE IF IsNaN(a) \/ IsNaN(b) THEN NaN
    ELSE IF IsInf(a) THEN (IF IsInf(b) THEN NaN
                           ELSE <<a[1] * (IF b[1] < 0 THEN -1 ELSE 1), 0>>)
    ELSE IF IsInf(b) THEN R(0)
    ELSE IF b[1] = 0 THEN (IF a[1] = 0 THEN NaN ELSE <<Sign(a[1]), 0>>)
    ELSE RMul(a, <<Sign(b[1]) * b[2], Abs(b[1])>>)

\* a/b < c/d for integers a, c and positive integers b, d, by comparing the
\* integer parts and then the inverted fractional parts: no product is formed
RECURSIVE FracLt(_, _, _, _)
FracLt(a, b, c, d) ==
    IF a \div b # c \div d THEN a \div b < c \div d
    ELSE IF c % d = 0 THEN FALSE
    ELSE IF a % b = 0 THEN TRUE
    ELSE FracLt(d, c % d, b, a % b)

\* comparisons of doubles: every comparison with NaN is false
RLt(a, b) ==
    /\ ~IsIrr(a) /\ ~IsIrr(b) /\ ~IsNaN(a) /\ ~IsNaN(b)
    /\ IF IsInf(a) \/ IsInf(b)
       THEN (a # b /\ (a = NegInf \/ b = PosInf))
       ELSE FracLt(a[1], a[2], b[1], b[2])

RLe(a, b) == ~IsIrr(a) /\ ~IsIrr(b) /\ ~IsNaN(a) /\ ~IsNaN(b) /\ (a = b \/ RLt(a, b))

RAbs(a) == IF IsIrr(a) THEN Irr ELSE <<Abs(a[1]), a[2]>>

RMax(a, b) == IF IsIrr(a) \/ IsIrr(b) THEN Irr
              ELSE IF IsNaN(a) \/ IsNaN(b) THEN NaN
              ELSE IF RLt(a, b) THEN b ELSE a

RMin(a, b) == IF IsIrr(a) \/ IsIrr(b) THEN Irr
              ELSE IF IsNaN(a) \/ IsNaN(b) THEN NaN
              ELSE IF RLt(b, a) THEN b ELSE a

\* the largest k with k*k <= n, by bisection on [lo, hi)
RECURSIVE ISqrtIn(_, _, _)
ISqrtIn(n, lo, hi) ==
    IF hi - lo <= 1 THEN lo
    ELSE LET mid == (lo + hi) \div 2
         IN  IF mid * mid <= n THEN ISqrtIn(n, mid, hi) ELSE ISqrtIn(n, lo, mid)

ISqrt(n) == ISqrtIn(n, 0, IF n < 46340 THEN n + 1 ELSE 46341)

\* n/d given the integer roots rn of n and rd of d
RootIfExact(n, d, rn, rd) == IF rn * rn = n /\ rd * rd = d THEN <<rn, rd>> ELSE Irr

\* Math.sqrt: exact on the squares of rationals, Irr on the other positive rationals
RSqrt(a) ==
    IF IsIrr(a) THEN Irr
    ELSE IF IsNaN(a) THEN NaN
    ELSE IF IsInf(a) THEN (IF a = PosInf THEN PosInf ELSE NaN)
    ELSE IF a[1] < 0 THEN NaN
    ELSE RootIfExact(a[1], a[2], ISqrt(a[1]), ISqrt(a[2]))

Half == Q(1, 2)

(***************************************************************************)
(* JavaScript values: truthiness of a number, optional arguments           *)
(***************************************************************************)
\* 0 and NaN are falsy numbers
Truthy(a) == ~IsZero(a) /\ ~IsNaN(a)

\* An optional argument is <<>> when omitted (undefined) and <<v>> when given.
\* arg || dflt
OrDefault(arg, dflt) == IF Len(arg) = 1 /\ Truthy(arg[1]) THEN arg[1] ELSE dflt

\* a default parameter value (x = dflt in the signature) replaces undefined only
ParamDefault(arg, dflt) == IF Len(arg) = 1 THEN arg[1] ELSE dflt

(***************************************************************************)
(* Vector2D: <<x, y>>                                                      *)
(***************************************************************************)
Vector2D(x, y) == <<x, y>>

VAdd(v, w) == <<RAdd(v[1], w[1]), RAdd(v[2], w[2])>>

VMultiplyScalar(v, s) == <<RMul(v[1], s), RMul(v[2], s)>>

\* a variant of divideScalar without the test of a zero divisor
VDivideScalarUnguarded(v, scalar) == <<RDiv(v[1], scalar), RDiv(v[2], scalar)>>

\* Vector2D.divideScalar(scalar): the receiver after the call, which is returned
VDivideScalar(v, scalar) ==
    IF scalar # R(0) THEN <<RDiv(v[1], scalar), RDiv(v[2], scalar)>>
    ELSE <<R(0), R(0)>>

\* Math.sqrt(dx * dx + dy * dy)
Hypot(dx, dy) == RSqrt(RAdd(RMul(dx, dx), RMul(dy, dy)))

VDistance(v, w) == Hypot(RSub(v[1], w[1]), RSub(v[2], w[2]))

\* Vector2D.length()
VLength(v) == Hypot(v[1], v[2])

\* Vector2D.normalize(): the receiver after the call, which is returned
VNormalize(v) == VDivideScalar(v, OrDefault(<<VLength(v)>>, R(1)))

VHasIrr(v) == IsIrr(v[1]) \/ IsIrr(v[2])

VFinite(v) == IsFinite(v[1]) /\ IsFinite(v[2])

(***************************************************************************)
(* Point                                                                   *)
(***************************************************************************)
\* options: a record holding any of the fields bodySize, fixed, mass
NewPoint(x, y, options) ==
    [position     |-> Vector2D(x, y),
     prevPosition |-> Vector2D(x, y),
     velocity     |-> Vector2D(R(0), R(0)),
     bodySize     |-> IF "bodySize" \in DOMAIN options
                      THEN OrDefault(<<options.bodySize>>, R(1)) ELSE R(1),
     fixed        |-> IF "fixed" \in DOMAIN options THEN options.fixed ELSE FALSE,
     mass         |-> IF "mass" \in DOMAIN options
                      THEN OrDefault(<<options.mass>>, R(1)) ELSE R(1)]

\* a variant that integrates the position with the velocity before the forces
PointUpdatePositionFirst(p, dt, gravity) ==
    IF p.fixed THEN p
    ELSE [p EXCEPT !.prevPosition = p.position,
                   !.velocity = VAdd(p.velocity, VMultiplyScalar(gravity, dt)),
                   !.position = VAdd(p.position, VMultiplyScalar(p.velocity, dt))]

\* a variant whose acceleration is the gravity divided by the mass
PointUpdateByMass(p, dt, gravity) ==
    IF p.fixed THEN p
    ELSE [p EXCEPT !.prevPosition = p.position,
                   !.velocity =
                       VAdd(p.velocity,
                            VMultiplyScalar(VMultiplyScalar(gravity, dt),
                                            RDiv(R(1), p.mass))),
                   !.position =
                       VAdd(p.position,
                            VMultiplyScalar(
                                VAdd(p.velocity,
                                     VMultiplyScalar(VMultiplyScalar(gravity, dt),
                                                     RDiv(R(1), p.mass))),
                                dt))]

\* Point.update(dt, gravity)
PointUpdate(p, dt, gravity) ==
    IF p.fixed THEN p
    ELSE LET velocity == VAdd(p.velocity, VMultiplyScalar(gravity, dt))
         IN  [p EXCEPT !.prevPosition = p.position,
                       !.velocity = velocity,
                       !.position = VAdd(p.position, VMultiplyScalar(velocity, dt))]

\* Point.applyConstraint(newPosition)
PointApplyConstraint(p, newPosition) ==
    IF p.fixed THEN p ELSE [p EXCEPT !.position = newPosition]

\* The points of an aggregate are a sequence; a point is named by its 0-based index.
At(pts, i) == pts[i + 1]

HasPoint(pts, i) == i \in 0..(Len(pts) - 1)

SetPosition(pts, i, pos) == [pts EXCEPT ![i + 1].position = pos]

\* position.x += dx; position.y += dy, of point i
Shift(pts, i, dx, dy) ==
    [pts EXCEPT ![i + 1].position = <<RAdd(@[1], dx), RAdd(@[2], dy)>>]

\* no position holds the mark Irr.  A sequence of solves stops at the first state
\* that holds one: what follows it cannot be computed
NoIrr(pts) == \A k \in DOMAIN pts : ~VHasIrr(pts[k].position)

(***************************************************************************)
(* DistanceConstraint: [point1, point2, distance, stiffness]               *)
(***************************************************************************)
NewDistanceConstraint(pts, i1, i2, distance, stiffness) ==
    [point1    |-> i1,
     point2    |-> i2,
     distance  |-> OrDefault(distance,
                             VDistance(At(pts, i1).position, At(pts, i2).position)),
     stiffness |-> ParamDefault(stiffness, R(1))]

\* a variant that moves both ends whatever their fixed flags are
DistanceConstraintApplyBothEnds(pts, c, offsetX, offsetY) ==
    Shift(Shift(pts, c.point1, RNeg(offsetX), RNeg(offsetY)), c.point2, offsetX, offsetY)

\* a variant that gives a single free end the half correction only
DistanceConstraintApplyHalf(pts, c, offsetX, offsetY) ==
    IF ~At(pts, c.point1).fixed /\ ~At(pts, c.point2).fixed
    THEN Shift(Shift(pts, c.point1, RNeg(offsetX), RNeg(offsetY)),
               c.point2, offsetX, offsetY)
    ELSE IF ~At(pts, c.point1).fixed
    THEN Shift(pts, c.point1, RNeg(offsetX), RNeg(offsetY))
    ELSE IF ~At(pts, c.point2).fixed
    THEN Shift(pts, c.point2, offsetX, offsetY)
    ELSE pts

\* a variant that gives the whole correction to point2 when both ends are free
DistanceConstraintApplyPoint2First(pts, c, offsetX, offsetY) ==
    IF ~At(pts, c.point2).fixed
    THEN Shift(pts, c.point2, RMul(offsetX, R(2)), RMul(offsetY, R(2)))
    ELSE IF ~At(pts, c.point1).fixed
    THEN Shift(pts, c.point1, RNeg(RMul(offsetX, R(2))), RNeg(RMul(offsetY, R(2))))
    ELSE pts

\* the moves of DistanceConstraint.solve, given the offsets
DistanceConstraintApply(pts, c, offsetX, offsetY) ==
    IF ~At(pts, c.point1).fixed /\ ~At(pts, c.point2).fixed
    THEN Shift(Shift(pts, c.point1, RNeg(offsetX), RNeg(offsetY)),
               c.point2, offsetX, offsetY)
    ELSE IF ~At(pts, c.point1).fixed
    THEN Shift(pts, c.point1, RNeg(RMul(offsetX, R(2))), RNeg(RMul(offsetY, R(2))))
    ELSE IF ~At(pts, c.point2).fixed
    THEN Shift(pts, c.point2, RMul(offsetX, R(2)), RMul(offsetY, R(2)))
    ELSE pts

\* a variant whose offsets leave the stiffness out
DistanceConstraintSolveAlongFull(pts, c, dx, dy) ==
    LET currentDistance == Hypot(dx, dy)
        difference == RDiv(RSub(c.distance, currentDistance), currentDistance)
    IN  IF IsZero(currentDistance) THEN pts
        ELSE DistanceConstraintApply(pts, c,
                 RMul(RMul(dx, difference), Half), RMul(RMul(dy, difference), Half))

\* a variant whose offsets are a quarter of the correction, not a half
DistanceConstraintSolveAlongQuarter(pts, c, dx, dy) ==
    LET currentDistance == Hypot(dx, dy)
        difference == RDiv(RSub(c.distance, currentDistance), currentDistance)
    IN  IF IsZero(currentDistance) THEN pts
        ELSE DistanceConstraintApply(pts, c,
                 RMul(RMul(RMul(dx, difference), Q(1, 4)), c.stiffness),
                 RMul(RMul(RMul(dy, difference), Q(1, 4)), c.stiffness))

\* DistanceConstraint.solve() from the separation <<dx, dy>> on
DistanceConstraintSolveAlong(pts, c, dx, dy) ==
    LET currentDistance == Hypot(dx, dy)
        difference == RDiv(RSub(c.distance, currentDistance), currentDistance)
    IN  IF IsZero(currentDistance) THEN pts
        ELSE DistanceConstraintApply(pts, c,
                 RMul(RMul(RMul(dx, difference), Half), c.stiffness),
                 RMul(RMul(RMul(dy, difference), Half), c.stiffness))

\* DistanceConstraint.solve()
DistanceConstraintSolve(pts, c) ==
    DistanceConstraintSolveAlong(pts, c,
        RSub(At(pts, c.point2).position[1], At(pts, c.point1).position[1]),
        RSub(At(pts, c.point2).position[2], At(pts, c.point1).position[2]))

(***************************************************************************)
(* Angles (see the head of the module)                                     *)
(***************************************************************************)
AArc(c, s) == <<"arc", c, s>>
APi(q) == <<"pi", q>>
AIrr == <<"irr">>

\* the angle as a multiple of pi, when it is one
Turn(a) ==
    IF a[1] = "pi" THEN a[2]
    ELSE IF a = AArc(R(1), R(0)) THEN R(0)
    ELSE IF a = AArc(R(0), R(1)) THEN Half
    ELSE IF a = AArc(R(-1), R(0)) THEN R(1)
    ELSE Irr

FromTurn(q) ==
    IF ~IsFinite(q) THEN AIrr
    ELSE IF q = R(0) THEN AArc(R(1), R(0))
    ELSE IF q = Half THEN AArc(R(0), R(1))
    ELSE IF q = R(1) THEN AArc(R(-1), R(0))
    ELSE APi(q)

MathPI == AArc(R(-1), R(0))

\* angle / n and angle - angle, on multiples of pi
ADiv(a, n) == FromTurn(RDiv(Turn(a), n))
ASub(a, b) == FromTurn(RSub(Turn(a), Turn(b)))

\* cos and sin of k * pi/2
GridCos(k) == IF k % 4 = 0 THEN R(1) ELSE IF k % 4 = 2 THEN R(-1) ELSE R(0)
GridSin(k) == IF k % 4 = 1 THEN R(1) ELSE IF k % 4 = 3 THEN R(-1) ELSE R(0)

\* q * pi is a multiple of pi/2
OnGrid(q) == IsFinite(q) /\ RMul(q, R(2))[2] = 1

MathCos(a) ==
    IF a[1] = "arc" THEN a[2]
    ELSE IF a[1] = "pi" /\ OnGrid(a[2]) THEN GridCos(RMul(a[2], R(2))[1])
    ELSE Irr

\* Math.acos on [-1, 1]
MathAcos(c) ==
    IF ~IsFinite(c) THEN AIrr
    ELSE AArc(c, RSqrt(RSub(R(1), RMul(c, c))))

\* whether the model can order the two angles
AngComparable(a, b) ==
    /\ a # AIrr /\ b # AIrr
    /\ \/ IsFinite(Turn(a)) /\ IsFinite(Turn(b))
       \/ a[1] = "arc" /\ b[1] = "arc"

\* a variant of <= that leaves equality out
AngLeStrict(a, b) ==
    IF IsFinite(Turn(a)) /\ IsFinite(Turn(b)) THEN RLt(Turn(a), Turn(b))
    ELSE RLt(b[2], a[2])

\* a <= b and a < b; of two angles of [0, pi] the smaller has the larger cosine
AngLe(a, b) ==
    IF IsFinite(Turn(a)) /\ IsFinite(Turn(b)) THEN RLe(Turn(a), Turn(b))
    ELSE RLe(b[2], a[2])

AngLt(a, b) ==
    IF IsFinite(Turn(a)) /\ IsFinite(Turn(b)) THEN RLt(Turn(a), Turn(b))
    ELSE RLt(b[2], a[2])

\* <<cos r, sin r>> of r = (target - angle) * stiffness
RotationOf(target, angle, stiffness) ==
    IF target[1] = "arc" /\ angle[1] = "arc"
    THEN LET cd == RAdd(RMul(target[2], angle[2]), RMul(target[3], angle[3]))
             sd == RSub(RMul(target[3], angle[2]), RMul(target[2], angle[3]))
             sg == IF IsFinite(sd) /\ sd[1] # 0 THEN R(Sign(sd[1]))
                   ELSE IF RLt(target[2], angle[2]) THEN R(1) ELSE R(-1)
         IN  IF stiffness = R(1) THEN <<cd, sd>>
             ELSE IF stiffness = R(0) THEN <<R(1), R(0)>>
             ELSE IF stiffness = Half
             THEN <<RSqrt(RMul(RAdd(R(1), cd), Half)),
                    RMul(sg, RSqrt(RMul(RSub(R(1), cd), Half)))>>
             ELSE <<Irr, Irr>>
    ELSE IF target # AIrr /\ angle # AIrr /\ IsFinite(Turn(target)) /\ IsFinite(Turn(angle))
    THEN LET r == RMul(RSub(Turn(target), Turn(angle)), stiffness)
         IN  IF OnGrid(r) THEN <<GridCos(RMul(r, R(2))[1]), GridSin(RMul(r, R(2))[1])>>
             ELSE <<Irr, Irr>>
    ELSE <<Irr, Irr>>

(***************************************************************************)
(* AngleConstraint: [point1, point2, point3, minAngle, maxAngle, stiffness]*)
(***************************************************************************)
NewAngleConstraint(i1, i2, i3, minAngle, maxAngle, stiffness) ==
    [point1    |-> i1,
     point2    |-> i2,
     point3    |-> i3,
     minAngle  |-> ParamDefault(minAngle, AArc(R(1), R(0))),
     maxAngle  |-> ParamDefault(maxAngle, MathPI),
     stiffness |-> ParamDefault(stiffness, Half)]

\* AngleConstraint.calculateAngle() from the two arms <<ax, ay>> and <<bx, by>> on
CalculateAngleOf(ax, ay, bx, by) ==
    LET magA == Hypot(ax, ay)
        magB == Hypot(bx, by)
        dotProduct == RAdd(RMul(ax, bx), RMul(ay, by))
        cosAngle == RDiv(dotProduct, RMul(magA, magB))
        clampedCosAngle == RMax(R(-1), RMin(R(1), cosAngle))
    IN  IF IsZero(magA) \/ IsZero(magB) THEN AArc(R(1), R(0))
        ELSE MathAcos(clampedCosAngle)

\* AngleConstraint.calculateAngle()
CalculateAngle(pts, c) ==
    CalculateAngleOf(
        RSub(At(pts, c.point1).position[1], At(pts, c.point2).position[1]),
        RSub(At(pts, c.point1).position[2], At(pts, c.point2).position[2]),
        RSub(At(pts, c.point3).position[1], At(pts, c.point2).position[1]),
        RSub(At(pts, c.point3).position[2], At(pts, c.point2).position[2]))

\* the threshold of "already at target", 0.001
AtTargetEps == Q(1, 1000)

\* the state that marks an outcome the model cannot compute
Unknown(pts, i) == SetPosition(pts, i, <<Irr, Irr>>)

\* a variant that assigns the rotated arm to point1
AngleConstraintPlaceOnPoint1(pts, c, v2x, v2y, rot) ==
    SetPosition(pts, c.point1,
        <<RAdd(At(pts, c.point2).position[1], RSub(RMul(v2x, rot[1]), RMul(v2y, rot[2]))),
          RAdd(At(pts, c.point2).position[2], RAdd(RMul(v2x, rot[2]), RMul(v2y, rot[1])))>>)

\* the assignment of point3: point2 plus v2 rotated by rot = <<cosRot, sinRot>>
AngleConstraintPlace(pts, c, v2x, v2y, rot) ==
    SetPosition(pts, c.point3,
        <<RAdd(At(pts, c.point2).position[1], RSub(RMul(v2x, rot[1]), RMul(v2y, rot[2]))),
          RAdd(At(pts, c.point2).position[2], RAdd(RMul(v2x, rot[2]), RMul(v2y, rot[1])))>>)

\* a variant without the test "already at target"
AngleConstraintRotateAlways(pts, c, angle, targetAngle, v2x, v2y, cosTarget, currentCos) ==
    IF IsIrr(cosTarget) \/ IsIrr(currentCos) THEN Unknown(pts, c.point3)
    ELSE IF ~At(pts, c.point3).fixed
    THEN AngleConstraintPlace(pts, c, v2x, v2y,
                              RotationOf(targetAngle, angle, c.stiffness))
    ELSE pts

\* AngleConstraint.solve() from the test "already at target" on
AngleConstraintRotate(pts, c, angle, targetAngle, v2x, v2y, cosTarget, currentCos) ==
    IF IsIrr(cosTarget) \/ IsIrr(currentCos) THEN Unknown(pts, c.point3)
    ELSE IF RLt(RAbs(RSub(currentCos, cosTarget)), AtTargetEps) THEN pts
    ELSE IF ~At(pts, c.point3).fixed
    THEN AngleConstraintPlace(pts, c, v2x, v2y,
                              RotationOf(targetAngle, angle, c.stiffness))
    ELSE pts

\* AngleConstraint.solve() from the vectors v1 and v2 on
AngleConstraintSolveToward(pts, c, angle, targetAngle, v1x, v1y, v2x, v2y) ==
    LET len1 == Hypot(v1x, v1y)
        len2 == Hypot(v2x, v2y)
    IN  IF IsZero(len1) \/ IsZero(len2) THEN pts
        ELSE AngleConstraintRotate(pts, c, angle, targetAngle, v2x, v2y,
                 MathCos(targetAngle),
                 RAdd(RMul(RDiv(v1x, len1), RDiv(v2x, len2)),
                      RMul(RDiv(v1y, len1), RDiv(v2y, len2))))

\* AngleConstraint.solve() from the corridor test on
AngleConstraintSolveAt(pts, c, angle) ==
    IF ~AngComparable(angle, c.minAngle) \/ ~AngComparable(angle, c.maxAngle)
    THEN Unknown(pts, c.point3)
    ELSE IF AngLe(c.minAngle, angle) /\ AngLe(angle, c.maxAngle) THEN pts
    ELSE AngleConstraintSolveToward(pts, c, angle,
             IF AngLt(angle, c.minAngle) THEN c.minAngle ELSE c.maxAngle,
             RSub(At(pts, c.point1).position[1], At(pts, c.point2).position[1]),
             RSub(At(pts, c.point1).position[2], At(pts, c.point2).position[2]),
             RSub(At(pts, c.point3).position[1], At(pts, c.point2).position[1]),
             RSub(At(pts, c.point3).position[2], At(pts, c.point2).position[2]))

\* AngleConstraint.solve()
AngleConstraintSolve(pts, c) == AngleConstraintSolveAt(pts, c, CalculateAngle(pts, c))

(***************************************************************************)
(* Chain: [points, distanceConstraints, angleConstraints, gravity]         *)
(***************************************************************************)
NewChain(gravity) ==
    [points              |-> <<>>,
     distanceConstraints |-> <<>>,
     angleConstraints    |-> <<>>,
     gravity             |-> ParamDefault(gravity, Vector2D(R(0), Q(98, 10)))]

\* a variant that puts the point in front of the others
ChainAddPointInFront(chain, point) == [chain EXCEPT !.points = <<point>> \o @]

\* Chain.addPoint(point); it returns the index ChainAddPointResult
ChainAddPoint(chain, point) == [chain EXCEPT !.points = Append(@, point)]

ChainAddPointResult(chain, point) == Len(ChainAddPoint(chain, point).points) - 1

\* a variant that ignores a call with an invalid index instead of throwing
AddDistanceConstraintLenient(chain, p1Index, p2Index, distance) ==
    IF ~HasPoint(chain.points, p1Index) \/ ~HasPoint(chain.points, p2Index)
    THEN [chain |-> chain, threw |-> FALSE]
    ELSE [chain |-> [chain EXCEPT !.distanceConstraints =
                        Append(@, NewDistanceConstraint(chain.points, p1Index, p2Index,
                                     <<OrDefault(distance,
                                           VDistance(At(chain.points, p1Index).position,
                                                     At(chain.points, p2Index).position))>>,
                                     <<>>))],
          threw |-> FALSE]

\* Chain.addDistanceConstraint(p1Index, p2Index, distance?): the chain after the
\* call and whether the call threw
AddDistanceConstraint(chain, p1Index, p2Index, distance) ==
    IF ~HasPoint(chain.points, p1Index) \/ ~HasPoint(chain.points, p2Index)
    THEN [chain |-> chain, threw |-> TRUE]
    ELSE LET targetDistance ==
                 OrDefault(distance, VDistance(At(chain.points, p1Index).position,
                                               At(chain.points, p2Index).position))
         IN  [chain |-> [chain EXCEPT !.distanceConstraints =
                            Append(@, NewDistanceConstraint(chain.points, p1Index, p2Index,
                                                            <<targetDistance>>, <<>>))],
              threw |-> FALSE]

\* a variant that drops the corridor it is given
AddAngleConstraintWide(chain, p1Index, p2Index, p3Index, minAngle, maxAngle) ==
    IF \/ ~HasPoint(chain.points, p1Index)
       \/ ~HasPoint(chain.points, p2Index)
       \/ ~HasPoint(chain.points, p3Index)
    THEN [chain |-> chain, threw |-> TRUE]
    ELSE [chain |-> [chain EXCEPT !.angleConstraints =
                        Append(@, NewAngleConstraint(p1Index, p2Index, p3Index,
                                                     <<>>, <<>>, <<>>))],
          threw |-> FALSE]

\* Chain.addAngleConstraint(p1Index, p2Index, p3Index, minAngle?, maxAngle?)
AddAngleConstraint(chain, p1Index, p2Index, p3Index, minAngle, maxAngle) ==
    IF \/ ~HasPoint(chain.points, p1Index)
       \/ ~HasPoint(chain.points, p2Index)
       \/ ~HasPoint(chain.points, p3Index)
    THEN [chain |-> chain, threw |-> TRUE]
    ELSE [chain |-> [chain EXCEPT !.angleConstraints =
                        Append(@, NewAngleConstraint(p1Index, p2Index, p3Index,
                                                     minAngle, maxAngle, <<>>))],
          threw |-> FALSE]

\* the options { bodySize: bodySize } of createChain, bodySize possibly undefined
BodySizeOption(bodySize) == IF Len(bodySize) = 1 THEN [bodySize |-> bodySize[1]] ELSE <<>>

\* the loop of createChain from index i on
RECURSIVE CreateChainFrom(_, _, _, _, _, _, _)
CreateChainFrom(chain, i, startX, startY, count, segmentLength, bodySize) ==
    IF ~(i < count) THEN chain
    ELSE LET point == NewPoint(RAdd(startX, RMul(R(i), segmentLength)), startY,
                               BodySizeOption(bodySize))
             c1 == ChainAddPoint(chain, point)
             c2 == AddDistanceConstraint(c1, i - 1, i, <<segmentLength>>).chain
             c3 == IF i >= 2
                   THEN AddAngleConstraint(c2, i - 2, i - 1, i,
                                           <<ADiv(MathPI, R(8))>>,
                                           <<ASub(MathPI, ADiv(MathPI, R(8)))>>).chain
                   ELSE c2
         IN  CreateChainFrom(c3, i + 1, startX, startY, count, segmentLength, bodySize)

\* a variant whose first point is free
CreateChainFreeStart(chain, startX, startY, count, segmentLength, bodySize) ==
    CreateChainFrom(ChainAddPoint(chain, NewPoint(startX, startY, BodySizeOption(bodySize))),
                    1, startX, startY, count, segmentLength, bodySize)

\* Chain.createChain(startX, startY, count, segmentLength, bodySize?)
CreateChain(chain, startX, startY, count, segmentLength, bodySize) ==
    LET firstPoint == NewPoint(startX, startY,
                               [fixed |-> TRUE] @@ BodySizeOption(bodySize))
    IN  CreateChainFrom(ChainAddPoint(chain, firstPoint), 1,
                        startX, startY, count, segmentLength, bodySize)

\* every point updated once, in order
UpdatePoints(pts, dt, gravity) == [k \in DOMAIN pts |-> PointUpdate(pts[k], dt, gravity)]

\* the loops below stop at the first state that holds the mark Irr
\* for (const constraint of this.distanceConstraints) constraint.solve()
RECURSIVE SolveDistanceConstraints(_, _, _)
SolveDistanceConstraints(pts, cs, k) ==
    IF ~NoIrr(pts) \/ k > Len(cs) THEN pts
    ELSE SolveDistanceConstraints(DistanceConstraintSolve(pts, cs[k]), cs, k + 1)

\* for (const constraint of this.angleConstraints) constraint.solve()
RECURSIVE SolveAngleConstraints(_, _, _)
SolveAngleConstraints(pts, cs, k) ==
    IF ~NoIrr(pts) \/ k > Len(cs) THEN pts
    ELSE SolveAngleConstraints(AngleConstraintSolve(pts, cs[k]), cs, k + 1)

\* a variant that solves the angle constraints before the distance constraints
ChainPassAnglesFirst(chain, pts) ==
    SolveDistanceConstraints(
        SolveAngleConstraints(pts, chain.angleConstraints, 1),
        chain.distanceConstraints, 1)

\* one pass of the loop of Chain.update
ChainPass(chain, pts) ==
    SolveAngleConstraints(
        SolveDistanceConstraints(pts, chain.distanceConstraints, 1),
        chain.angleConstraints, 1)

RECURSIVE ChainPasses(_, _, _, _)
ChainPasses(chain, pts, i, iterations) ==
    IF ~NoIrr(pts) \/ ~(i < iterations) THEN pts
    ELSE ChainPasses(chain, ChainPass(chain, pts), i + 1, iterations)

DefaultChainIterations == 5

\* a variant that, after the passes, derives every velocity from the displacement
\* of the point over the tick
DerivedVelocities(pts, dt) ==
    [k \in DOMAIN pts |->
        [pts[k] EXCEPT !.velocity =
            VDivideScalar(VAdd(pts[k].position,
                               VMultiplyScalar(pts[k].prevPosition, R(-1))), dt)]]

ChainUpdateDerivingVelocity(chain, dt, iterations) ==
    [chain EXCEPT !.points =
        DerivedVelocities(
            ChainPasses(chain, UpdatePoints(chain.points, dt, chain.gravity), 0,
                        ParamDefault(iterations, DefaultChainIterations)), dt)]

\* Chain.update(dt, iterations = 5)
ChainUpdate(chain, dt, iterations) ==
    [chain EXCEPT !.points =
        ChainPasses(chain, UpdatePoints(chain.points, dt, chain.gravity), 0,
                    ParamDefault(iterations, DefaultChainIterations))]

(***************************************************************************)
(* Fabric: [points, joints, targets]; Target objects live in a heap, a     *)
(* sequence of [position], and are named by their 0-based place in it      *)
(***************************************************************************)
NewFabric == [points |-> <<>>, joints |-> <<>>, targets |-> <<>>]

NewTarget(x, y) == [position |-> Vector2D(x, y)]

\* Target.move(x, y)
TargetMove(heap, t, x, y) == [heap EXCEPT ![t + 1].position = Vector2D(x, y)]

\* Fabric.addPoint(point); it returns the point, here its index
FabricAddPoint(fabric, point) == [fabric EXCEPT !.points = Append(@, point)]

\* Fabric.connectPoints(point1, point2, length?)
ConnectPoints(fabric, point1, point2, length) ==
    LET distance == OrDefault(length, VDistance(At(fabric.points, point1).position,
                                                At(fabric.points, point2).position))
    IN  [fabric EXCEPT !.joints =
            Append(@, [point1 |-> point1, point2 |-> point2, length |-> distance])]

\* a variant that registers a copy of the Target it returns
SetTargetDetached(fabric, heap, point, targetX, targetY, strength) ==
    [fabric |-> [fabric EXCEPT !.targets =
                    Append(@, [point    |-> point,
                               target   |-> Len(heap),
                               strength |-> ParamDefault(strength, R(1))])],
     heap   |-> Append(Append(heap, NewTarget(targetX, targetY)),
                       NewTarget(targetX, targetY)),
     result |-> Len(heap) + 1]

\* Fabric.setTarget(point, targetX, targetY, strength = 1): the fabric and the heap
\* after the call, and the Target returned
SetTarget(fabric, heap, point, targetX, targetY, strength) ==
    [fabric |-> [fabric EXCEPT !.targets =
                    Append(@, [point    |-> point,
                               target   |-> Len(heap),
                               strength |-> ParamDefault(strength, R(1))])],
     heap   |-> Append(heap, NewTarget(targetX, targetY)),
     result |-> Len(heap)]

\* the target phase of Fabric.solve, from the k-th registered target on
RECURSIVE ApplyTargets(_, _, _, _)
ApplyTargets(pts, targets, heap, k) ==
    IF ~NoIrr(pts) \/ k > Len(targets) THEN pts
    ELSE LET point == At(pts, targets[k].point)
             target == heap[targets[k].target + 1]
             dx == RMul(RSub(target.position[1], point.position[1]), targets[k].strength)
             dy == RMul(RSub(target.position[2], point.position[2]), targets[k].strength)
         IN  ApplyTargets(IF ~point.fixed THEN Shift(pts, targets[k].point, dx, dy)
                          ELSE pts,
                          targets, heap, k + 1)

\* a variant that gives a single free end the half correction only
RelaxJointApplyHalf(pts, joint, offsetX, offsetY) ==
    IF ~At(pts, joint.point1).fixed /\ ~At(pts, joint.point2).fixed
    THEN Shift(Shift(pts, joint.point1, RNeg(offsetX), RNeg(offsetY)),
               joint.point2, offsetX, offsetY)
    ELSE IF ~At(pts, joint.point1).fixed
    THEN Shift(pts, joint.point1, RNeg(offsetX), RNeg(offsetY))
    ELSE IF ~At(pts, joint.point2).fixed
    THEN Shift(pts, joint.point2, offsetX, offsetY)
    ELSE pts

\* the moves of the joint loop of Fabric.solve, given the offsets
RelaxJointApply(pts, joint, offsetX, offsetY) ==
    IF ~At(pts, joint.point1).fixed /\ ~At(pts, joint.point2).fixed
    THEN Shift(Shift(pts, joint.point1, RNeg(offsetX), RNeg(offsetY)),
               joint.point2, offsetX, offsetY)
    ELSE IF ~At(pts, joint.point1).fixed
    THEN Shift(pts, joint.point1, RNeg(RMul(offsetX, R(2))), RNeg(RMul(offsetY, R(2))))
    ELSE IF ~At(pts, joint.point2).fixed
    THEN Shift(pts, joint.point2, RMul(offsetX, R(2)), RMul(offsetY, R(2)))
    ELSE pts

\* a variant without the test of a zero length
RelaxJointAlongUnguarded(pts, joint, dx, dy) ==
    LET currentLength == Hypot(dx, dy)
        diff == RDiv(RSub(joint.length, currentLength), currentLength)
    IN  RelaxJointApply(pts, joint, RMul(RMul(dx, diff), Half),
                                    RMul(RMul(dy, diff), Half))

\* the body of the joint loop from the separation <<dx, dy>> on
RelaxJointAlong(pts, joint, dx, dy) ==
    LET currentLength == Hypot(dx, dy)
        diff == RDiv(RSub(joint.length, currentLength), currentLength)
    IN  IF IsZero(currentLength) THEN pts
        ELSE RelaxJointApply(pts, joint, RMul(RMul(dx, diff), Half),
                                         RMul(RMul(dy, diff), Half))

\* the body of the joint loop of Fabric.solve, for one joint
RelaxJoint(pts, joint) ==
    RelaxJointAlong(pts, joint,
        RSub(At(pts, joint.point2).position[1], At(pts, joint.point1).position[1]),
        RSub(At(pts, joint.point2).position[2], At(pts, joint.point1).position[2]))

\* for (const joint of this.joints) ...
RECURSIVE RelaxJoints(_, _, _)
RelaxJoints(pts, joints, k) ==
    IF ~NoIrr(pts) \/ k > Len(joints) THEN pts
    ELSE RelaxJoints(RelaxJoint(pts, joints[k]), joints, k + 1)

RECURSIVE FabricPasses(_, _, _, _)
FabricPasses(pts, joints, i, iterations) ==
    IF ~NoIrr(pts) \/ ~(i < iterations) THEN pts
    ELSE FabricPasses(RelaxJoints(pts, joints, 1), joints, i + 1, iterations)

DefaultFabricIterations == 10

\* a variant that pulls toward the targets after the joints are relaxed
FabricSolveTargetsLast(fabric, heap, iterations) ==
    [fabric EXCEPT !.points =
        ApplyTargets(FabricPasses(fabric.points, fabric.joints, 0,
                                  ParamDefault(iterations, DefaultFabricIterations)),
                     fabric.targets, heap, 1)]

\* a variant that drops the targets once it has pulled toward them
FabricSolveConsumingTargets(fabric, heap, iterations) ==
    [fabric EXCEPT !.points =
        FabricPasses(ApplyTargets(fabric.points, fabric.targets, heap, 1),
                     fabric.joints, 0, ParamDefault(iterations, DefaultFabricIterations)),
                   !.targets = <<>>]

\* Fabric.solve(iterations = 10)
FabricSolve(fabric, heap, iterations) ==
    [fabric EXCEPT !.points =
        FabricPasses(ApplyTargets(fabric.points, fabric.targets, heap, 1),
                     fabric.joints, 0, ParamDefault(iterations, DefaultFabricIterations))]

\* the loop of createLeg from index i on: st = [fabric, lastPoint, startPoint], a
\* point variable being <<>> for null and <<index>> for a point
RECURSIVE CreateLegFrom(_, _, _, _, _, _)
CreateLegFrom(st, i, x, y, segments, fixStart) ==
    IF ~(i < Len(segments)) THEN st
    ELSE LET segmentLength == segments[i + 1]
             isFirst == i = 0
             isLast == i = Len(segments) - 1
             last == st.lastPoint
             pointX == IF Len(last) = 1
                       THEN RAdd(At(st.fabric.points, last[1]).position[1], segmentLength)
                       ELSE x
             pointY == IF Len(last) = 1
                       THEN At(st.fabric.points, last[1]).position[2]
                       ELSE y
             point == NewPoint(pointX, pointY,
                               [fixed    |-> isFirst /\ fixStart,
                                bodySize |-> IF isLast THEN R(4) ELSE R(2)])
             f1 == FabricAddPoint(st.fabric, point)
             me == Len(f1.points) - 1
             f2 == IF Len(last) = 1
                   THEN ConnectPoints(f1, last[1], me, <<segmentLength>>)
                   ELSE f1
         IN  CreateLegFrom([fabric     |-> f2,
                            lastPoint  |-> <<me>>,
                            startPoint |-> IF isFirst THEN <<me>> ELSE st.startPoint],
                           i + 1, x, y, segments, fixStart)

FootOffset == 20

\* a variant that binds a target to the last point even when it is the first
CreateLegTargetAlways(st, heap, x, y) ==
    IF Len(st.lastPoint) = 1
    THEN SetTarget(st.fabric, heap, st.lastPoint[1],
                   At(st.fabric.points, st.lastPoint[1]).position[1],
                   RAdd(At(st.fabric.points, st.lastPoint[1]).position[2], R(FootOffset)),
                   <<Half>>)
    ELSE [fabric |-> st.fabric,
          heap   |-> Append(heap, NewTarget(x, y)),
          result |-> Len(heap)]

\* the end of createLeg: the target of the last point, or the fallback
CreateLegTarget(st, heap, x, y) ==
    IF Len(st.lastPoint) = 1 /\ st.lastPoint # st.startPoint
    THEN SetTarget(st.fabric, heap, st.lastPoint[1],
                   At(st.fabric.points, st.lastPoint[1]).position[1],
                   RAdd(At(st.fabric.points, st.lastPoint[1]).position[2], R(FootOffset)),
                   <<Half>>)
    ELSE [fabric |-> st.fabric,
          heap   |-> Append(heap, NewTarget(x, y)),
          result |-> Len(heap)]

\* Fabric.createLeg(x, y, segments, fixStart = true): the fabric and the heap after
\* the call, and the Target returned
CreateLeg(fabric, heap, x, y, segments, fixStart) ==
    CreateLegTarget(
        CreateLegFrom([fabric |-> fabric, lastPoint |-> <<>>, startPoint |-> <<>>],
                      0, x, y, segments, ParamDefault(fixStart, TRUE)),
        heap, x, y)

(***************************************************************************)
(* The state: one Chain, one Fabric, the heap of Target objects; the last  *)
(* call made (last), the state it was made in (old), and the number of     *)
(* calls made (steps)                                                      *)
(***************************************************************************)
\* hook is the state of a component that uses the hooks, NoHook where there is none
VARIABLES chain, fabric, heap, last, old, steps, hook

vars == <<chain, fabric, heap, last, old, steps, hook>>

NoHook == [kind |-> "none"]

\* the calls of one behaviour
MaxSteps == 2

NoOptions == [k \in {} |-> TRUE]

Snapshot == [chain |-> chain, fabric |-> fabric, heap |-> heap]

\* a call is modelled when the state it produces is one of rationals
Computable(c, f) == NoIrr(c.points) /\ NoIrr(f.points)

(***************************************************************************)
(* Set-ups: the states construction code can build                         *)
(***************************************************************************)
V(x, y) == Vector2D(R(x), R(y))

\* a chain of the given points with the given gravity
ChainOf(points, gravity) == [NewChain(<<gravity>>) EXCEPT !.points = points]

\* chain.distanceConstraints.push(new DistanceConstraint(p1, p2, distance, stiffness))
PushDistance(c, i1, i2, distance, stiffness) ==
    [c EXCEPT !.distanceConstraints =
        Append(@, NewDistanceConstraint(c.points, i1, i2, distance, stiffness))]

\* chain.angleConstraints.push(new AngleConstraint(p1, p2, p3, min, max, stiffness))
PushAngle(c, i1, i2, i3, minAngle, maxAngle, stiffness) ==
    [c EXCEPT !.angleConstraints =
        Append(@, NewAngleConstraint(i1, i2, i3, minAngle, maxAngle, stiffness))]

Fixed(b) == [fixed |-> b]

\* the angle of [0, pi] whose cosine is 7/25; its half has cosine 4/5
Theta == AArc(Q(7, 25), Q(24, 25))
RightAngle == AArc(R(0), R(1))

\* two points and one distance constraint, gravity along the line to (3, 4)
PairChains ==
    { PushDistance(ChainOf(<<NewPoint(R(0), R(0), Fixed(f1)),
                             NewPoint(p2[1], p2[2], Fixed(f2))>>, V(3, 4)),
                   0, 1, <<d>>, <<s>>) :
        f1 \in BOOLEAN, f2 \in BOOLEAN, p2 \in {V(0, 0), V(3, 4)},
        d \in {R(10), R(2)}, s \in {R(0), Half, R(1)} }

\* point1 at (4, 0), a fixed pivot at the origin, point3 on an axis or on the
\* pivot; the two arms held by default distance constraints, the angle by one
\* AngleConstraint
AngleChains ==
    { PushAngle(
        AddDistanceConstraint(
          AddDistanceConstraint(
            ChainOf(<<NewPoint(R(4), R(0), Fixed(f13)),
                      NewPoint(R(0), R(0), Fixed(TRUE)),
                      NewPoint(p3[1], p3[2], Fixed(f13))>>, V(0, 0)),
            0, 1, <<>>).chain,
          1, 2, <<>>).chain,
        0, 1, 2, <<cor[1]>>, <<cor[2]>>, <<s>>) :
        f13 \in BOOLEAN,
        p3 \in {V(0, 3), V(0, -3), V(3, 0), V(-3, 0), V(0, 0)},
        cor \in {<<RightAngle, MathPI>>, <<Theta, RightAngle>>,
                 <<ADiv(MathPI, R(8)), ASub(MathPI, ADiv(MathPI, R(8)))>>},
        s \in {Half, R(1)} }

\* a straight chain of three points along x, built with addPoint and the add
\* methods, gravity along x
LineChains ==
    { AddAngleConstraint(
        AddDistanceConstraint(
          AddDistanceConstraint(
            ChainOf(<<NewPoint(R(0), R(0), Fixed(TRUE)),
                      NewPoint(R(4), R(0), NoOptions),
                      NewPoint(R(8), R(0), NoOptions)>>, V(2, 0)),
            0, 1, <<d>>).chain,
          1, 2, <<>>).chain,
        0, 1, 2, <<>>, <<>>).chain : d \in {R(2), R(4)} }

\* three free points on a line, the pivot in the middle: a distance constraint
\* that pulls point1 and the pivot together, and an angle constraint that folds
\* the straight angle to a right one
HingeChains ==
    { PushAngle(
        AddDistanceConstraint(
          ChainOf(<<NewPoint(R(4), R(0), NoOptions),
                    NewPoint(R(0), R(0), NoOptions),
                    NewPoint(R(-3), R(0), NoOptions)>>, V(0, 0)),
          0, 1, <<R(2)>>).chain,
        0, 1, 2, <<Theta>>, <<RightAngle>>, <<R(1)>>) }

\* two points, one joint, one target on the line through them
PairFabrics ==
    { SetTarget(
        ConnectPoints([NewFabric EXCEPT !.points =
                          <<NewPoint(R(0), R(0), Fixed(f1)),
                            NewPoint(p2[1], p2[2], Fixed(f2))>>],
                      0, 1, <<len>>),
        <<>>, 1, R(6), R(8), st) :
        f1 \in BOOLEAN, f2 \in BOOLEAN, p2 \in {V(0, 0), V(3, 4)},
        len \in {R(10), R(2)}, st \in {<<>>, <<Half>>} }

\* three points on the line from the origin through (3, 4), two joints, no target
JointFabrics ==
    { [fabric |-> ConnectPoints(
                    ConnectPoints([NewFabric EXCEPT !.points =
                                      <<NewPoint(R(0), R(0), Fixed(f1)),
                                        NewPoint(R(3), R(4), NoOptions),
                                        NewPoint(R(9), R(12), NoOptions)>>],
                                  0, 1, <<R(10)>>),
                    1, 2, <<R(10)>>),
       heap |-> <<>>] : f1 \in BOOLEAN }

\* fabric.setTarget(point, x, y, strength) on the set-up b = [fabric, heap]
WithTarget(b, point, x, y, strength) == SetTarget(b.fabric, b.heap, point, x, y, strength)

\* one point at the origin with a target at (100, 0), alone or followed by a
\* second target at (0, 50) on the same point
TargetFabrics ==
    { IF two
      THEN WithTarget(WithTarget([fabric |-> FabricAddPoint(NewFabric,
                                                 NewPoint(R(0), R(0), Fixed(f))),
                                  heap |-> <<>>],
                                 0, R(100), R(0), <<Half>>),
                      0, R(0), R(50), <<Half>>)
      ELSE WithTarget([fabric |-> FabricAddPoint(NewFabric, NewPoint(R(0), R(0), Fixed(f))),
                       heap |-> <<>>],
                      0, R(100), R(0), <<>>) :
        f \in BOOLEAN, two \in BOOLEAN }

\* a leg: createLeg(0, 0, [7, 24], fixStart)
LegFabrics ==
    { CreateLeg(NewFabric, <<>>, R(0), R(0), <<R(7), R(24)>>, fs) :
        fs \in {<<>>, <<FALSE>>} }

Init ==
    /\ \/ /\ chain \in PairChains \cup AngleChains \cup LineChains \cup HingeChains
          /\ fabric = NewFabric
          /\ heap = <<>>
       \/ /\ chain = NewChain(<<>>)
          /\ \E b \in PairFabrics \cup JointFabrics \cup TargetFabrics \cup LegFabrics :
                fabric = b.fabric /\ heap = b.heap
    /\ last = [op |-> "init"]
    /\ old = Snapshot
    /\ steps = 0
    /\ hook = NoHook

(***************************************************************************)
(* The calls                                                               *)
(***************************************************************************)
TimeSteps == {Half, R(1)}
Positions == {V(0, 0), V(6, 8)}

Called(l) ==
    /\ steps < MaxSteps
    /\ steps' = steps + 1
    /\ old' = Snapshot
    /\ last' = l
    /\ Computable(chain', fabric')
    /\ UNCHANGED hook

\* chain.points[i].update(dt, gravity)
DoPointUpdate ==
    \E i \in 0..(Len(chain.points) - 1), dt \in TimeSteps :
        /\ chain' = [chain EXCEPT !.points[i + 1] = PointUpdate(@, dt, chain.gravity)]
        /\ UNCHANGED <<fabric, heap>>
        /\ Called([op |-> "Point.update", i |-> i, dt |-> dt, gravity |-> chain.gravity])

\* chain.points[i].applyConstraint(newPosition)
DoApplyConstraint ==
    \E i \in 0..(Len(chain.points) - 1), pos \in Positions :
        /\ chain' = [chain EXCEPT !.points[i + 1] = PointApplyConstraint(@, pos)]
        /\ UNCHANGED <<fabric, heap>>
        /\ Called([op |-> "Point.applyConstraint", i |-> i, pos |-> pos])

\* chain.distanceConstraints[k].solve()
DoDistanceSolve ==
    \E k \in DOMAIN chain.distanceConstraints :
        /\ chain' = [chain EXCEPT !.points =
                        DistanceConstraintSolve(@, chain.distanceConstraints[k])]
        /\ UNCHANGED <<fabric, heap>>
        /\ Called([op |-> "DistanceConstraint.solve", k |-> k])

\* chain.angleConstraints[k].solve()
DoAngleSolve ==
    \E k \in DOMAIN chain.angleConstraints :
        /\ chain' = [chain EXCEPT !.points =
                        AngleConstraintSolve(@, chain.angleConstraints[k])]
        /\ UNCHANGED <<fabric, heap>>
        /\ Called([op |-> "AngleConstraint.solve", k |-> k])

\* chain.update(dt, iterations)
DoChainUpdate ==
    \E dt \in TimeSteps, it \in {<<>>, <<0>>, <<1>>} :
        /\ Len(chain.points) > 0
        /\ chain' = ChainUpdate(chain, dt, it)
        /\ UNCHANGED <<fabric, heap>>
        /\ Called([op |-> "Chain.update", dt |-> dt, iterations |-> it])

\* fabric.solve(iterations)
DoFabricSolve ==
    \E it \in {<<>>, <<0>>, <<1>>} :
        /\ Len(fabric.points) > 0
        /\ fabric' = FabricSolve(fabric, heap, it)
        /\ UNCHANGED <<chain, heap>>
        /\ Called([op |-> "Fabric.solve", iterations |-> it])

\* target.move(x, y)
DoTargetMove ==
    \E t \in 0..(Len(heap) - 1), pos \in Positions :
        /\ heap' = TargetMove(heap, t, pos[1], pos[2])
        /\ UNCHANGED <<chain, fabric>>
        /\ Called([op |-> "Target.move", t |-> t, pos |-> pos])

\* fabric.setTarget(point, x, y, strength?) on the last point added; result is
\* the Target returned
DoSetTarget ==
    \E strength \in {<<>>, <<Half>>} :
        /\ Len(fabric.points) > 0
        /\ fabric' = SetTarget(fabric, heap, Len(fabric.points) - 1,
                               R(6), R(8), strength).fabric
        /\ heap' = SetTarget(fabric, heap, Len(fabric.points) - 1,
                             R(6), R(8), strength).heap
        /\ UNCHANGED chain
        /\ Called([op |-> "Fabric.setTarget", point |-> Len(fabric.points) - 1,
                   x |-> R(6), y |-> R(8), strength |-> strength,
                   result |-> SetTarget(fabric, heap, Len(fabric.points) - 1,
                                        R(6), R(8), strength).result])

Next ==
    \/ DoPointUpdate
    \/ DoApplyConstraint
    \/ DoDistanceSolve
    \/ DoAngleSolve
    \/ DoChainUpdate
    \/ DoFabricSolve
    \/ DoTargetMove
    \/ DoSetTarget

Spec == Init /\ [][Next]_vars

(***************************************************************************)
(* Construction: the factory methods called on a Chain and a Fabric that   *)
(* start empty, the targets they return moved and the fabric solved        *)
(***************************************************************************)
\* the largest count passed to createChain
MaxCount == 5

Starts == {V(0, 0), V(3, 1)}
\* <<start, segmentLength>> of the createChain calls
ChainLayouts == {<<V(0, 0), R(20)>>, <<V(3, 1), Half>>}
SegmentLists ==
    {<<>>, <<R(5)>>, <<R(10), R(15)>>, <<R(7), R(24)>>, <<R(30), R(40), R(20)>>}

InitBuild ==
    /\ chain = NewChain(<<>>)
    /\ fabric = NewFabric
    /\ heap = <<>>
    /\ last = [op |-> "init"]
    /\ old = Snapshot
    /\ steps = 0
    /\ hook = NoHook

\* chain.createChain(startX, startY, count, segmentLength, bodySize?)
DoCreateChain ==
    \E layout \in ChainLayouts, count \in 0..MaxCount, bodySize \in {<<>>, <<R(3)>>} :
        /\ bodySize = <<>> \/ (layout[1] = V(0, 0) /\ count = 3)
        /\ chain' = CreateChain(chain, layout[1][1], layout[1][2], count, layout[2],
                                bodySize)
        /\ UNCHANGED <<fabric, heap>>
        /\ Called([op |-> "Chain.createChain",
                   startX |-> layout[1][1], startY |-> layout[1][2],
                   count |-> count, segmentLength |-> layout[2],
                   bodySize |-> bodySize])

\* fabric.createLeg(x, y, segments, fixStart?); result is the Target returned
DoCreateLeg ==
    \E start \in Starts, segments \in SegmentLists,
       fixStart \in {<<>>, <<TRUE>>, <<FALSE>>} :
        /\ fixStart = <<TRUE>> => (start = V(0, 0) /\ segments = <<R(10), R(15)>>)
        /\ start = V(3, 1) => (fixStart = <<>> /\ Len(segments) \in {0, 2})
        /\ fabric' = CreateLeg(fabric, heap, start[1], start[2], segments, fixStart).fabric
        /\ heap' = CreateLeg(fabric, heap, start[1], start[2], segments, fixStart).heap
        /\ UNCHANGED chain
        /\ Called([op |-> "Fabric.createLeg", x |-> start[1], y |-> start[2],
                   segments |-> segments, fixStart |-> fixStart,
                   result |-> CreateLeg(fabric, heap, start[1], start[2],
                                        segments, fixStart).result])

\* chain.addPoint(new Point(x, y, options)); result is the index returned
DoChainAddPoint ==
    \E start \in Starts, options \in {NoOptions, Fixed(TRUE)} :
        /\ chain' = ChainAddPoint(chain, NewPoint(start[1], start[2], options))
        /\ UNCHANGED <<fabric, heap>>
        /\ Called([op |-> "Chain.addPoint", x |-> start[1], y |-> start[2],
                   options |-> options,
                   result |-> ChainAddPointResult(chain,
                                  NewPoint(start[1], start[2], options))])

\* the index arguments tried on a chain of n points: valid ones, a negative one,
\* and n, the first index past the end
IndexPairs(n) == {<<0, 1>>, <<1, 0>>, <<-1, 0>>, <<0, n>>}
IndexTriples(n) == {<<0, 1, 2>>, <<-1, 1, 2>>, <<0, n, 2>>, <<0, 1, n>>}
Lengths == {<<>>, <<R(0)>>, <<R(5)>>}

\* chain.addDistanceConstraint(p1Index, p2Index, distance?); threw tells whether
\* the call threw
DoAddDistanceConstraint ==
    \E idx \in IndexPairs(Len(chain.points)), distance \in Lengths :
        /\ distance = <<>> \/ idx = <<0, 1>>
        /\ chain' = AddDistanceConstraint(chain, idx[1], idx[2], distance).chain
        /\ UNCHANGED <<fabric, heap>>
        /\ Called([op |-> "Chain.addDistanceConstraint",
                   p1Index |-> idx[1], p2Index |-> idx[2], distance |-> distance,
                   threw |-> AddDistanceConstraint(chain, idx[1], idx[2], distance).threw])

\* chain.addAngleConstraint(p1Index, p2Index, p3Index, minAngle?, maxAngle?)
DoAddAngleConstraint ==
    \E idx \in IndexTriples(Len(chain.points)),
       cor \in {<<<<>>, <<>>>>, <<<<Theta>>, <<RightAngle>>>>} :
        /\ cor = <<<<>>, <<>>>> \/ idx = <<0, 1, 2>>
        /\ chain' = AddAngleConstraint(chain, idx[1], idx[2], idx[3],
                                       cor[1], cor[2]).chain
        /\ UNCHANGED <<fabric, heap>>
        /\ Called([op |-> "Chain.addAngleConstraint",
                   p1Index |-> idx[1], p2Index |-> idx[2], p3Index |-> idx[3],
                   minAngle |-> cor[1], maxAngle |-> cor[2],
                   threw |-> AddAngleConstraint(chain, idx[1], idx[2], idx[3],
                                                cor[1], cor[2]).threw])

\* fabric.addPoint(new Point(x, y, options)); result is the point returned
DoFabricAddPoint ==
    \E start \in Starts, options \in {NoOptions, Fixed(TRUE)} :
        /\ fabric' = FabricAddPoint(fabric, NewPoint(start[1], start[2], options))
        /\ UNCHANGED <<chain, heap>>
        /\ Called([op |-> "Fabric.addPoint", x |-> start[1], y |-> start[2],
                   options |-> options, result |-> Len(fabric.points)])

\* fabric.connectPoints(point1, point2, length?) on the first and the last point
DoConnectPoints ==
    \E length \in Lengths :
        /\ Len(fabric.points) >= 2
        /\ fabric' = ConnectPoints(fabric, 0, Len(fabric.points) - 1, length)
        /\ UNCHANGED <<chain, heap>>
        /\ Called([op |-> "Fabric.connectPoints", point1 |-> 0,
                   point2 |-> Len(fabric.points) - 1, length |-> length])

NextBuild ==
    \/ DoCreateChain
    \/ DoCreateLeg
    \/ DoTargetMove
    \/ DoFabricSolve
    \/ DoSetTarget
    \/ DoChainAddPoint
    \/ DoAddDistanceConstraint
    \/ DoAddAngleConstraint
    \/ DoFabricAddPoint
    \/ DoConnectPoints
    \/ DoChainUpdate

SpecBuild == InitBuild /\ [][NextBuild]_vars

(***************************************************************************)
(* Vectors: the methods of Vector2D called on the position of the one      *)
(* point of a chain.  returned names the object a method returns: "this",  *)
(* the receiver                                                            *)
(***************************************************************************)
Vectors == {V(0, 0), V(3, 4), V(-6, 8), V(0, 5), V(1, 1)}
Scalars == {R(0), R(2), Q(-1, 2), R(5)}

InitVector ==
    /\ chain \in {ChainOf(<<NewPoint(v[1], v[2], NoOptions)>>, V(0, 0)) : v \in Vectors}
    /\ fabric = NewFabric
    /\ heap = <<>>
    /\ last = [op |-> "init"]
    /\ old = Snapshot
    /\ steps = 0
    /\ hook = NoHook

\* chain.points[0].position.divideScalar(scalar)
DoDivideScalar ==
    \E scalar \in Scalars :
        /\ chain' = [chain EXCEPT !.points[1].position = VDivideScalar(@, scalar)]
        /\ UNCHANGED <<fabric, heap>>
        /\ Called([op |-> "Vector2D.divideScalar", scalar |-> scalar,
                   returned |-> "this"])

\* chain.points[0].position.normalize()
DoNormalize ==
    /\ chain' = [chain EXCEPT !.points[1].position = VNormalize(@)]
    /\ UNCHANGED <<fabric, heap>>
    /\ Called([op |-> "Vector2D.normalize", returned |-> "this"])

\* chain.points[0].position.multiplyScalar(scalar)
DoMultiplyScalar ==
    \E scalar \in Scalars :
        /\ chain' = [chain EXCEPT !.points[1].position = VMultiplyScalar(@, scalar)]
        /\ UNCHANGED <<fabric, heap>>
        /\ Called([op |-> "Vector2D.multiplyScalar", scalar |-> scalar,
                   returned |-> "this"])

\* chain.points[0].position.add(v)
DoVectorAdd ==
    \E v \in Vectors :
        /\ chain' = [chain EXCEPT !.points[1].position = VAdd(@, v)]
        /\ UNCHANGED <<fabric, heap>>
        /\ Called([op |-> "Vector2D.add", v |-> v, returned |-> "this"])

NextVector ==
    \/ DoDivideScalar
    \/ DoNormalize
    \/ DoMultiplyScalar
    \/ DoVectorAdd

SpecVector == InitVector /\ [][NextVector]_vars

(***************************************************************************)
(* Pairs: chains and fabrics of distance constraints and joints only, the  *)
(* constraints solved one at a time, the points and targets moved between  *)
(***************************************************************************)
InitPairs ==
    /\ \/ /\ chain \in PairChains \cup LineChains
          /\ fabric = NewFabric
          /\ heap = <<>>
       \/ /\ chain = NewChain(<<>>)
          /\ \E b \in PairFabrics \cup JointFabrics :
                fabric = b.fabric /\ heap = b.heap
    /\ last = [op |-> "init"]
    /\ old = Snapshot
    /\ steps = 0
    /\ hook = NoHook

NextPairs ==
    \/ DoDistanceSolve
    \/ DoFabricSolve
    \/ DoApplyConstraint
    \/ DoTargetMove

SpecPairs == InitPairs /\ [][NextPairs]_vars

(***************************************************************************)
(* Ticks: a chain that is only updated, every time with the same dt; the   *)
(* call record counts the updates made so far                              *)
(***************************************************************************)
InitTicks ==
    /\ chain \in PairChains \cup AngleChains \cup LineChains \cup HingeChains
    /\ fabric = NewFabric
    /\ heap = <<>>
    /\ last = [op |-> "init"]
    /\ old = Snapshot
    /\ steps = 0
    /\ hook = NoHook

\* chain.update(dt, iterations), with the dt of the update before it
DoChainTick ==
    \E dt \in TimeSteps, it \in {<<>>, <<0>>, <<1>>} :
        /\ IF last.op = "init" THEN TRUE ELSE last.dt = dt
        /\ chain' = ChainUpdate(chain, dt, it)
        /\ UNCHANGED <<fabric, heap>>
        /\ Called([op |-> "Chain.update", dt |-> dt, iterations |-> it,
                   ticks |-> steps + 1])

NextTicks == DoChainTick

SpecTicks == InitTicks /\ [][NextTicks]_vars

(***************************************************************************)
(* Angle constraints on their own: point3 on either side of the ray from   *)
(* the pivot to point1, and corridors whose upper bound it exceeds         *)
(***************************************************************************)
\* acos(24/25), about 16.3 degrees, and acos(144/145), about 6.7 degrees
Shallow == AArc(Q(24, 25), Q(7, 25))
Sliver == AArc(Q(144, 145), Q(17, 145))

\* point1 at (4, 0), a fixed pivot at the origin, point3 a quarter turn to either
\* side of point1 or at acos(255/257), about 7.2 degrees, to either side
SwingChains ==
    { PushAngle(
        ChainOf(<<NewPoint(R(4), R(0), NoOptions),
                  NewPoint(R(0), R(0), Fixed(TRUE)),
                  NewPoint(p3[1], p3[2], Fixed(f3))>>, V(0, 0)),
        0, 1, 2, <<cor[1]>>, <<cor[2]>>, <<s>>) :
        f3 \in BOOLEAN,
        p3 \in {V(0, 3), V(0, -3), V(255, 32), V(255, -32)},
        cor \in {<<AArc(R(1), R(0)), Shallow>>, <<AArc(R(1), R(0)), Sliver>>,
                 <<Shallow, MathPI>>},
        s \in {Half, R(1)} }

InitAngle ==
    /\ chain \in SwingChains
    /\ fabric = NewFabric
    /\ heap = <<>>
    /\ last = [op |-> "init"]
    /\ old = Snapshot
    /\ steps = 0
    /\ hook = NoHook

NextAngle ==
    \/ DoAngleSolve
    \/ DoApplyConstraint

SpecAngle == InitAngle /\ [][NextAngle]_vars

(***************************************************************************)
(* The hooks: a component that calls useChain or useFabric and, through    *)
(* it, useAnimationFrame.  React commits a render and runs the effects of  *)
(* the commit later, before the next render; the browser runs the callbacks*)
(* requested with requestAnimationFrame at the next frame.  hook is        *)
(*   kind, mounted      the hook called, and whether the component is      *)
(*                      mounted                                            *)
(*   rendered           the values the latest render read and closed over  *)
(*   state              the React state the next render will read          *)
(*   pendingEffects     the effects of the latest commit have not run yet  *)
(*   deps               the dependencies the effects last ran with         *)
(*   ref                chainRef / fabricRef holds an object               *)
(*   requestRef, previousTimeRef, accumulatedTimeRef, frameIntervalRef     *)
(*   queue, nextId      the requests pending in the browser, each with the *)
(*                      values its animate closed over; the next handle    *)
(*   now                the time of the last frame, in ms                  *)
(* Times are in ms; an absent value (undefined) is <<>>.                   *)
(***************************************************************************)
DefaultFps == 60

\* the events of one behaviour of the component
MaxEvents == 6

\* the options a render passes to useChain / useFabric
HookOptions ==
    { [iterations |-> <<>>, fps |-> <<>>, autoStart |-> <<>>],
      [iterations |-> <<1>>, fps |-> <<>>, autoStart |-> <<>>],
      [iterations |-> <<>>, fps |-> <<25>>, autoStart |-> <<>>],
      [iterations |-> <<>>, fps |-> <<>>, autoStart |-> <<FALSE>>] }

\* the time between two frames of the browser, in ms
FrameGaps == {20, 250}

\* the argument of a setFps call
NewFps == {100}

\* const { iterations = 5 (useChain) or 10 (useFabric), fps = 60,
\* autoStart = true } = options, and the options { fps, paused: !autoStart }
\* passed on to useAnimationFrame, which reads { fps = 60, paused = false }
Destructure(kind, options) ==
    [iterations |-> ParamDefault(options.iterations,
                                 IF kind = "useChain" THEN DefaultChainIterations
                                 ELSE DefaultFabricIterations),
     fps        |-> ParamDefault(<<ParamDefault(options.fps, DefaultFps)>>, DefaultFps),
     paused     |-> ParamDefault(<<~ParamDefault(options.autoStart, TRUE)>>, FALSE)]

\* what a render of the component reads: its options and the React state
Render(kind, options, state) ==
    [iterations    |-> Destructure(kind, options).iterations,
     fps           |-> Destructure(kind, options).fps,
     paused        |-> Destructure(kind, options).paused,
     isPaused      |-> state.isPaused,
     isInitialized |-> state.isInitialized]

\* the first render: useState(false), useRef(null), useRef(), useRef(0),
\* useRef(1000 / fps), useState(paused)
FirstRender(kind, options) ==
    [kind               |-> kind,
     mounted            |-> TRUE,
     rendered           |-> Render(kind, options,
                                   [isPaused      |-> Destructure(kind, options).paused,
                                    isInitialized |-> FALSE]),
     state              |-> [isPaused      |-> Destructure(kind, options).paused,
                             isInitialized |-> FALSE],
     pendingEffects     |-> TRUE,
     deps               |-> <<>>,
     ref                |-> FALSE,
     requestRef         |-> <<>>,
     previousTimeRef    |-> <<>>,
     accumulatedTimeRef |-> R(0),
     frameIntervalRef   |-> Q(1000, Destructure(kind, options).fps),
     queue              |-> <<>>,
     nextId             |-> 1,
     now                |-> 0]

\* requestRef.current = requestAnimationFrame(animate), animate being the
\* function of the render that read isPaused and iterations
RequestAnimationFrame(h, isPaused, iterations) ==
    [h EXCEPT !.requestRef = <<h.nextId>>,
              !.queue = Append(@, [id |-> h.nextId, isPaused |-> isPaused,
                                   iterations |-> iterations]),
              !.nextId = @ + 1]

\* cancelAnimationFrame(id)
CancelAnimationFrame(h, id) ==
    [h EXCEPT !.queue = SelectSeq(@, LAMBDA r : r.id # id)]

\* the cleanup of the effect that starts the loop
LoopCleanup(h) ==
    IF Len(h.requestRef) = 1 /\ h.requestRef[1] # 0
    THEN CancelAnimationFrame(h, h.requestRef[1])
    ELSE h

\* whether an effect runs: at the first flush, and when its dependency changed
Changed(h, dep) == h.deps = <<>> \/ h.deps[1][dep] # h.rendered[dep]

\* useChain / useFabric: useEffect(() => { ref.current = new Chain(gravity) or
\* new Fabric(); setIsInitialized(true) }, [])
InitEffect(h) ==
    IF h.deps = <<>> THEN [h EXCEPT !.ref = TRUE, !.state.isInitialized = TRUE] ELSE h

\* useEffect(() => { frameIntervalRef.current = 1000 / fps }, [fps])
FpsEffect(h) ==
    IF Changed(h, "fps") THEN [h EXCEPT !.frameIntervalRef = Q(1000, h.rendered.fps)]
    ELSE h

\* useEffect(() => { setIsPaused(paused) }, [paused])
PausedEffect(h) ==
    IF Changed(h, "paused") THEN [h EXCEPT !.state.isPaused = h.rendered.paused] ELSE h

\* useEffect(() => { requestRef.current = requestAnimationFrame(animate);
\* return cleanup }, [isPaused])
LoopEffect(h) ==
    IF Changed(h, "isPaused")
    THEN RequestAnimationFrame(IF h.deps = <<>> THEN h ELSE LoopCleanup(h),
                               h.rendered.isPaused, h.rendered.iterations)
    ELSE h

\* the effects of a commit in the order of the hooks, or the cleanup of an
\* unmount
FlushEffects(h) ==
    IF h.mounted
    THEN [LoopEffect(PausedEffect(FpsEffect(InitEffect(h)))) EXCEPT
              !.pendingEffects = FALSE,
              !.deps = <<[fps |-> h.rendered.fps, paused |-> h.rendered.paused,
                          isPaused |-> h.rendered.isPaused]>>]
    ELSE [LoopCleanup(h) EXCEPT !.pendingEffects = FALSE]

\* The state a frame works on: st = [hook, chain, fabric, heap, calls], calls
\* being the calls of the callback made in the frame so far.
\* the callback of useChain, chain.update(deltaTime, iterations), or of useFabric,
\* fabric.solve(iterations), as the render that made it read iterations
Callback(st, iterations, deltaTime) ==
    [st EXCEPT
       !.chain  = IF st.hook.kind = "useChain" /\ st.hook.ref
                  THEN ChainUpdate(@, deltaTime, <<iterations>>) ELSE @,
       !.fabric = IF st.hook.kind = "useFabric" /\ st.hook.ref
                  THEN FabricSolve(@, st.heap, <<iterations>>) ELSE @,
       !.calls  = Append(@, [deltaTime |-> deltaTime, iterations |-> iterations])]

\* while (accumulatedTimeRef.current >= frameIntervalRef.current) { ... }
RECURSIVE CatchUp(_, _)
CatchUp(st, iterations) ==
    IF ~RLe(st.hook.frameIntervalRef, st.hook.accumulatedTimeRef) THEN st
    ELSE CatchUp([Callback(st, iterations, RDiv(st.hook.frameIntervalRef, R(1000)))
                    EXCEPT !.hook.accumulatedTimeRef = RSub(@, st.hook.frameIntervalRef)],
                 iterations)

\* a variant of deltaTime without the cap
DeltaTimeUncapped(previousTime, time) == RDiv(RSub(R(time), R(previousTime)), R(1000))

\* Math.min((time - previousTimeRef.current) / 1000, 0.1), in seconds
DeltaTime(previousTime, time) ==
    RMin(RDiv(RSub(R(time), R(previousTime)), R(1000)), Q(1, 10))

\* animate(time) up to the assignment of previousTimeRef
AnimateBody(st, request, time) ==
    IF st.hook.previousTimeRef # <<>> /\ ~request.isPaused
    THEN CatchUp([st EXCEPT !.hook.accumulatedTimeRef =
                     RAdd(@, RMul(DeltaTime(st.hook.previousTimeRef[1], time), R(1000)))],
                 request.iterations)
    ELSE st

\* animate(time), of the render that made the request
Animate(st, request, time) ==
    [AnimateBody(st, request, time) EXCEPT
        !.hook = RequestAnimationFrame([@ EXCEPT !.previousTimeRef = <<time>>],
                                       request.isPaused, request.iterations)]

\* the browser runs the requests that were pending when the frame began
RECURSIVE RunFrame(_, _, _, _)
RunFrame(st, requests, k, time) ==
    IF k > Len(requests) THEN st
    ELSE RunFrame(Animate(st, requests[k], time), requests, k + 1, time)

\* the state after a frame at the given time
Frame(h, c, f, hp, time) ==
    RunFrame([hook |-> [h EXCEPT !.queue = <<>>, !.now = time],
              chain |-> c, fabric |-> f, heap |-> hp, calls |-> <<>>],
             h.queue, 1, time)

\* the component is rendered for the first time
InitHook ==
    /\ \E kind \in {"useChain", "useFabric"}, options \in HookOptions :
          hook = FirstRender(kind, options)
    /\ chain = NewChain(<<>>)
    /\ fabric = NewFabric
    /\ heap = <<>>
    /\ last = [op |-> "init"]
    /\ old = Snapshot
    /\ steps = 0

HookCalled(l) ==
    /\ steps < MaxEvents
    /\ steps' = steps + 1
    /\ old' = Snapshot
    /\ last' = l

\* React renders the component again, with the same or other options, and
\* commits; the effects of the commit before have run by then
DoRender ==
    \E options \in HookOptions :
        /\ hook.mounted /\ ~hook.pendingEffects
        /\ Render(hook.kind, options, hook.state) # hook.rendered
        /\ hook' = [hook EXCEPT !.rendered = Render(hook.kind, options, hook.state),
                                !.pendingEffects = TRUE]
        /\ UNCHANGED <<chain, fabric, heap>>
        /\ HookCalled([op |-> "render", before |-> hook])

\* React runs the effects of the latest commit
DoFlushEffects ==
    /\ hook.pendingEffects
    /\ hook' = FlushEffects(hook)
    /\ UNCHANGED <<chain, fabric, heap>>
    /\ HookCalled([op |-> "effects", before |-> hook])

\* the component is unmounted
DoUnmount ==
    /\ hook.mounted /\ ~hook.pendingEffects
    /\ hook' = [hook EXCEPT !.mounted = FALSE, !.pendingEffects = TRUE]
    /\ UNCHANGED <<chain, fabric, heap>>
    /\ HookCalled([op |-> "unmount", before |-> hook])

\* pause() and resume()
DoPause ==
    /\ hook.mounted /\ ~hook.state.isPaused
    /\ hook' = [hook EXCEPT !.state.isPaused = TRUE]
    /\ UNCHANGED <<chain, fabric, heap>>
    /\ HookCalled([op |-> "pause", before |-> hook])

DoResume ==
    /\ hook.mounted /\ hook.state.isPaused
    /\ hook' = [hook EXCEPT !.state.isPaused = FALSE]
    /\ UNCHANGED <<chain, fabric, heap>>
    /\ HookCalled([op |-> "resume", before |-> hook])

\* setFps(newFps)
DoSetFps ==
    \E newFps \in NewFps :
        /\ hook.mounted
        /\ hook.frameIntervalRef # Q(1000, newFps)
        /\ hook' = [hook EXCEPT !.frameIntervalRef = Q(1000, newFps)]
        /\ UNCHANGED <<chain, fabric, heap>>
        /\ HookCalled([op |-> "setFps", newFps |-> newFps, before |-> hook])

\* a frame of the browser in which a request of the hook is pending
DoFrame ==
    \E gap \in FrameGaps :
        /\ hook.queue # <<>>
        /\ hook' = Frame(hook, chain, fabric, heap, hook.now + gap).hook
        /\ chain' = Frame(hook, chain, fabric, heap, hook.now + gap).chain
        /\ fabric' = Frame(hook, chain, fabric, heap, hook.now + gap).fabric
        /\ UNCHANGED heap
        /\ HookCalled([op |-> "frame", gap |-> gap, before |-> hook,
                       calls |-> Frame(hook, chain, fabric, heap, hook.now + gap).calls])

NextHook ==
    \/ DoRender
    \/ DoFlushEffects
    \/ DoUnmount
    \/ DoPause
    \/ DoResume
    \/ DoSetFps
    \/ DoFrame

SpecHook == InitHook /\ [][NextHook]_vars

(***************************************************************************)
(* Properties of the calls.  A property of one call reads the call in      *)
(* last, the state it was made in in old, and the state it produced in the *)
(* variables.                                                              *)
(***************************************************************************)
\* C1: a point whose fixed flag is true never has its position changed, by any
\* of Point.update, Point.applyConstraint, DistanceConstraint.solve,
\* AngleConstraint.solve, Chain.update and Fabric.solve, in whatever role it
\* plays in the constraints
C1_FixedPointNeverMoves ==
    [][/\ \A k \in DOMAIN chain.points :
             chain.points[k].fixed =>
                 /\ k \in DOMAIN chain'.points
                 /\ chain'.points[k].position = chain.points[k].position
       /\ \A k \in DOMAIN fabric.points :
             fabric.points[k].fixed =>
                 /\ k \in DOMAIN fabric'.points
                 /\ fabric'.points[k].position = fabric.points[k].position]_vars

\* Fabric.solve has moved a free point joined to a fixed point that a target pulls
C1_Witness ==
    /\ last.op = "Fabric.solve"
    /\ \E j \in DOMAIN fabric.joints, t \in DOMAIN fabric.targets :
          /\ fabric.targets[t].point = fabric.joints[j].point2
          /\ At(fabric.points, fabric.joints[j].point2).fixed
          /\ heap[fabric.targets[t].target + 1].position
                 # At(fabric.points, fabric.joints[j].point2).position
          /\ At(fabric.points, fabric.joints[j].point1).position
                 # At(old.fabric.points, fabric.joints[j].point1).position

\* the distance constraint a DistanceConstraint.solve call was made on
SolvedDistance == old.chain.distanceConstraints[last.k]

\* |current distance - distance| of a constraint among the points pts
DistanceError(pts, c) ==
    RAbs(RSub(VDistance(At(pts, c.point1).position, At(pts, c.point2).position),
              c.distance))

BothFree(pts, c) == ~At(pts, c.point1).fixed /\ ~At(pts, c.point2).fixed

Coincident(pts, c) == At(pts, c.point1).position = At(pts, c.point2).position

\* C2 as stated: for two free points joined by a DistanceConstraint of stiffness
\* in [0, 1], each solve() makes |current distance - D| smaller than before
\* whenever it is non-zero
C2_EverySolveReducesError ==
    (/\ last.op = "DistanceConstraint.solve"
     /\ BothFree(old.chain.points, SolvedDistance)
     /\ RLe(R(0), SolvedDistance.stiffness)
     /\ RLe(SolvedDistance.stiffness, R(1))
     /\ ~IsZero(DistanceError(old.chain.points, SolvedDistance)))
    => RLt(DistanceError(chain.points, SolvedDistance),
           DistanceError(old.chain.points, SolvedDistance))

\* C2, amended: for two free points that do not coincide, joined by a
\* DistanceConstraint of stiffness s in (0, 1], each solve() multiplies
\* |current distance - D| by 1 - s, so the error is smaller than before
\* whenever it is non-zero and repeated calls drive it to zero
C2_SolveContractsError ==
    (/\ last.op = "DistanceConstraint.solve"
     /\ BothFree(old.chain.points, SolvedDistance)
     /\ RLt(R(0), SolvedDistance.stiffness)
     /\ RLe(SolvedDistance.stiffness, R(1))
     /\ ~Coincident(old.chain.points, SolvedDistance))
    => /\ DistanceError(chain.points, SolvedDistance)
            = RMul(RSub(R(1), SolvedDistance.stiffness),
                   DistanceError(old.chain.points, SolvedDistance))
       /\ \/ IsZero(DistanceError(old.chain.points, SolvedDistance))
          \/ RLt(DistanceError(chain.points, SolvedDistance),
                 DistanceError(old.chain.points, SolvedDistance))

\* a solve() of stiffness 1/2 on two free points has halved a non-zero error
C2_Witness ==
    /\ last.op = "DistanceConstraint.solve"
    /\ BothFree(old.chain.points, SolvedDistance)
    /\ SolvedDistance.stiffness = Half
    /\ ~Coincident(old.chain.points, SolvedDistance)
    /\ ~IsZero(DistanceError(chain.points, SolvedDistance))
    /\ RLt(DistanceError(chain.points, SolvedDistance),
           DistanceError(old.chain.points, SolvedDistance))

\* offset = delta * ((distance - d) / d) * 0.5 * stiffness, of a constraint among pts
OffsetOf(pts, c) ==
    LET delta == <<RSub(At(pts, c.point2).position[1], At(pts, c.point1).position[1]),
                   RSub(At(pts, c.point2).position[2], At(pts, c.point1).position[2])>>
        d == VDistance(At(pts, c.point1).position, At(pts, c.point2).position)
        factor == RMul(RMul(RDiv(RSub(c.distance, d), d), Half), c.stiffness)
    IN  VMultiplyScalar(delta, factor)

VSub(v, w) == <<RSub(v[1], w[1]), RSub(v[2], w[2])>>

\* C3: DistanceConstraint.solve() distributes the correction by the fixed flags:
\* both free, point1 -= offset and point2 += offset; one free, that point takes
\* 2 * offset and the fixed one is untouched; both fixed, nothing changes.  So
\* the separation after solve() is the same whenever at least one point is free.
C3_CorrectionDistributedByFixedFlags ==
    (/\ last.op = "DistanceConstraint.solve"
     /\ ~Coincident(old.chain.points, SolvedDistance))
    => LET c == SolvedDistance
           p1 == At(old.chain.points, c.point1)
           p2 == At(old.chain.points, c.point2)
           q1 == At(chain.points, c.point1)
           q2 == At(chain.points, c.point2)
           offset == OffsetOf(old.chain.points, c)
           twice == VMultiplyScalar(offset, R(2))
       IN  /\ (~p1.fixed /\ ~p2.fixed) =>
                  /\ q1.position = VSub(p1.position, offset)
                  /\ q2.position = VAdd(p2.position, offset)
           /\ (~p1.fixed /\ p2.fixed) =>
                  /\ q1.position = VSub(p1.position, twice)
                  /\ q2.position = p2.position
           /\ (p1.fixed /\ ~p2.fixed) =>
                  /\ q1.position = p1.position
                  /\ q2.position = VAdd(p2.position, twice)
           /\ (p1.fixed /\ p2.fixed) => chain.points = old.chain.points
           /\ (~p1.fixed \/ ~p2.fixed) =>
                  VSub(q2.position, q1.position)
                      = VAdd(VSub(p2.position, p1.position), twice)
           /\ \A k \in DOMAIN chain.points :
                  k - 1 \notin {c.point1, c.point2} =>
                      chain.points[k] = old.chain.points[k]

\* a solve() with point1 fixed and point2 free has moved point2
C3_Witness ==
    /\ last.op = "DistanceConstraint.solve"
    /\ At(old.chain.points, SolvedDistance.point1).fixed
    /\ ~At(old.chain.points, SolvedDistance.point2).fixed
    /\ At(chain.points, SolvedDistance.point2).position
           # At(old.chain.points, SolvedDistance.point2).position

\* the angle constraint an AngleConstraint.solve call was made on
SolvedAngle == old.chain.angleConstraints[last.k]

\* point1 or point3 of an angle constraint lies on the pivot point2
ArmOnPivot(pts, c) ==
    \/ At(pts, c.point1).position = At(pts, c.point2).position
    \/ At(pts, c.point3).position = At(pts, c.point2).position

AllFinite(pts) == \A k \in DOMAIN pts : VFinite(pts[k].position)

\* the points of the fabric after the target phase of the Fabric.solve call made
AfterTargets == ApplyTargets(old.fabric.points, old.fabric.targets, old.heap, 1)

\* C4: degenerate geometry is a silent no-op.  DistanceConstraint.solve() on two
\* coincident points, the joint relaxation of Fabric.solve on two coincident
\* points and AngleConstraint.solve() with point1 or point3 on the pivot change
\* no position and write no NaN or Infinity, whatever the target distance, the
\* corridor and the fixed flags; on points that do not coincide the distance
\* constraint acts: it moves a point whenever an end is free, the stiffness is
\* not 0 and the distance is not the target distance.
C4_DegenerateGeometryIsNoOp ==
    /\ (last.op = "DistanceConstraint.solve"
        /\ Coincident(old.chain.points, SolvedDistance))
       => chain.points = old.chain.points /\ AllFinite(chain.points)
    /\ (last.op = "AngleConstraint.solve" /\ ArmOnPivot(old.chain.points, SolvedAngle))
       => chain.points = old.chain.points /\ AllFinite(chain.points)
    /\ (last.op = "Fabric.solve"
        /\ \A j \in DOMAIN old.fabric.joints : Coincident(AfterTargets, old.fabric.joints[j]))
       => fabric.points = AfterTargets /\ AllFinite(fabric.points)
    /\ (last.op = "DistanceConstraint.solve"
        /\ ~Coincident(old.chain.points, SolvedDistance)
        /\ ~(At(old.chain.points, SolvedDistance.point1).fixed
             /\ At(old.chain.points, SolvedDistance.point2).fixed)
        /\ ~IsZero(SolvedDistance.stiffness)
        /\ ~IsZero(DistanceError(old.chain.points, SolvedDistance)))
       => chain.points # old.chain.points

\* Fabric.solve has run its joint loop on two coincident points, one of them free,
\* with a joint length that is not 0
C4_Witness ==
    /\ last.op = "Fabric.solve"
    /\ last.iterations # <<0>>
    /\ \E j \in DOMAIN old.fabric.joints :
          /\ Coincident(AfterTargets, old.fabric.joints[j])
          /\ ~At(AfterTargets, old.fabric.joints[j].point1).fixed
          /\ ~IsZero(old.fabric.joints[j].length)

\* the cosine of the angle at the pivot between the rays to point1 and point3
CosAtPivot(pts, c) ==
    LET a == VSub(At(pts, c.point1).position, At(pts, c.point2).position)
        b == VSub(At(pts, c.point3).position, At(pts, c.point2).position)
    IN  RDiv(RAdd(RMul(a[1], b[1]), RMul(a[2], b[2])),
             RMul(VDistance(At(pts, c.point1).position, At(pts, c.point2).position),
                  VDistance(At(pts, c.point3).position, At(pts, c.point2).position)))

\* rational bounds of the cosine of a corridor bound: cos(angle) >= CosFloor(angle)
\* and cos(angle) <= CosCeiling(angle); 0.9 < cos(pi/8) and cos(7 pi/8) < -0.9
CosFloor(angle) ==
    IF angle[1] = "arc" THEN angle[2]
    ELSE IF angle = APi(Q(1, 8)) THEN Q(9, 10)
    ELSE R(2)

CosCeiling(angle) ==
    IF angle[1] = "arc" THEN angle[2]
    ELSE IF angle = APi(Q(7, 8)) THEN Q(-9, 10)
    ELSE R(-2)

\* the angle at the pivot lies in [minAngle, maxAngle], bounds included: an angle
\* of [0, pi] is at least minAngle when its cosine is at most cos(minAngle)
WithinCorridor(pts, c) ==
    /\ ~ArmOnPivot(pts, c)
    /\ IsFinite(CosAtPivot(pts, c))
    /\ RLe(CosAtPivot(pts, c), CosFloor(c.minAngle))
    /\ RLe(CosCeiling(c.maxAngle), CosAtPivot(pts, c))

\* C5: if the angle at the pivot between the rays to point1 and point3 lies
\* within [minAngle, maxAngle], bounds included, AngleConstraint.solve() leaves
\* the positions of all three points unchanged, for every stiffness and every
\* combination of fixed flags
C5_AngleWithinCorridorUnchanged ==
    (last.op = "AngleConstraint.solve" /\ WithinCorridor(old.chain.points, SolvedAngle))
    => chain.points = old.chain.points

\* solve() was called with a free point3 and the angle exactly on minAngle
C5_Witness ==
    /\ last.op = "AngleConstraint.solve"
    /\ WithinCorridor(old.chain.points, SolvedAngle)
    /\ CosAtPivot(old.chain.points, SolvedAngle) = CosFloor(SolvedAngle.minAngle)
    /\ ~At(old.chain.points, SolvedAngle.point3).fixed
    /\ SolvedAngle.stiffness = R(1)

\* C6: for a free point with zero velocity at p0, one Point.update(dt, g) yields
\* velocity = g * dt, position = p0 + g * dt * dt and prevPosition = p0; for a
\* fixed point update changes none of position, prevPosition and velocity
C6_PointUpdateIntegratesVelocityFirst ==
    last.op = "Point.update"
    => LET p == At(old.chain.points, last.i)
           q == At(chain.points, last.i)
       IN  /\ (~p.fixed /\ p.velocity = Vector2D(R(0), R(0))) =>
                  /\ q.velocity = VMultiplyScalar(last.gravity, last.dt)
                  /\ q.position =
                         VAdd(p.position,
                              VMultiplyScalar(VMultiplyScalar(last.gravity, last.dt),
                                              last.dt))
                  /\ q.prevPosition = p.position
           /\ p.fixed =>
                  /\ q.position = p.position
                  /\ q.prevPosition = p.prevPosition
                  /\ q.velocity = p.velocity

\* update was called on a free point at rest under a gravity that is not zero
C6_Witness ==
    /\ last.op = "Point.update"
    /\ ~At(old.chain.points, last.i).fixed
    /\ At(old.chain.points, last.i).velocity = Vector2D(R(0), R(0))
    /\ At(chain.points, last.i).position # At(old.chain.points, last.i).position
    /\ At(chain.points, last.i).position # At(chain.points, last.i).prevPosition

\* the chain was empty when the call was made
OnEmptyChain ==
    /\ old.chain.points = <<>>
    /\ old.chain.distanceConstraints = <<>>
    /\ old.chain.angleConstraints = <<>>

\* createChain(0, 0, 5, 20) was the call made, on an empty Chain
ChainOfFiveCalled ==
    /\ last.op = "Chain.createChain"
    /\ OnEmptyChain
    /\ last.startX = R(0) /\ last.startY = R(0)
    /\ last.count = 5 /\ last.segmentLength = R(20)

\* C7 as stated: on an empty Chain, createChain(0, 0, 5, 20) yields exactly 5
\* points, exactly 4 distance constraints each with distance 20, and exactly 2
\* angle constraints, each with corridor [pi/8, 7 pi/8]
C7_ChainOfFiveTwoAngles ==
    ChainOfFiveCalled
    => /\ Len(chain.points) = 5
       /\ Len(chain.distanceConstraints) = 4
       /\ \A k \in DOMAIN chain.distanceConstraints :
              chain.distanceConstraints[k].distance = R(20)
       /\ Len(chain.angleConstraints) = 2
       /\ \A k \in DOMAIN chain.angleConstraints :
              /\ chain.angleConstraints[k].minAngle = APi(Q(1, 8))
              /\ chain.angleConstraints[k].maxAngle = APi(Q(7, 8))

\* C7, amended: on an empty Chain, createChain(0, 0, 5, 20) yields exactly 5
\* points, exactly 4 distance constraints each with distance 20, and exactly 3
\* angle constraints (one per triple of consecutive points), each with corridor
\* [pi/8, 7 pi/8]
C7_ChainOfFiveThreeAngles ==
    ChainOfFiveCalled
    => /\ Len(chain.points) = 5
       /\ Len(chain.distanceConstraints) = 4
       /\ \A k \in DOMAIN chain.distanceConstraints :
              chain.distanceConstraints[k].distance = R(20)
       /\ Len(chain.angleConstraints) = 3
       /\ \A k \in DOMAIN chain.angleConstraints :
              /\ chain.angleConstraints[k].minAngle = APi(Q(1, 8))
              /\ chain.angleConstraints[k].maxAngle = APi(Q(7, 8))

\* createChain(0, 0, 5, 20) was called on an empty Chain and made the triples
\* (0, 1, 2), (1, 2, 3) and (2, 3, 4)
C7_Witness ==
    /\ ChainOfFiveCalled
    /\ Len(chain.points) = 5
    /\ {<<chain.angleConstraints[k].point1, chain.angleConstraints[k].point2,
          chain.angleConstraints[k].point3>> : k \in DOMAIN chain.angleConstraints}
           = {<<0, 1, 2>>, <<1, 2, 3>>, <<2, 3, 4>>}

\* C8: for every count >= 1 and segmentLength L > 0, createChain(x, y, count, L)
\* on an empty Chain yields exactly count points, point i at (x + i L, y), only
\* point 0 fixed; exactly count - 1 distance constraints, the i-th joining
\* points (i, i + 1) with distance L; and exactly max(count - 2, 0) angle
\* constraints, one per consecutive triple (i - 2, i - 1, i) with pivot i - 1
\* and corridor [pi/8, pi - pi/8]
C8_ChainTopology ==
    (/\ last.op = "Chain.createChain"
     /\ OnEmptyChain
     /\ last.count >= 1
     /\ RLt(R(0), last.segmentLength))
    => /\ Len(chain.points) = last.count
       /\ \A i \in 0..(last.count - 1) :
              /\ At(chain.points, i).position =
                     Vector2D(RAdd(last.startX, RMul(R(i), last.segmentLength)),
                              last.startY)
              /\ At(chain.points, i).fixed = (i = 0)
       /\ Len(chain.distanceConstraints) = last.count - 1
       /\ \A i \in 0..(last.count - 2) :
              /\ chain.distanceConstraints[i + 1].point1 = i
              /\ chain.distanceConstraints[i + 1].point2 = i + 1
              /\ chain.distanceConstraints[i + 1].distance = last.segmentLength
       /\ Len(chain.angleConstraints) = IF last.count >= 2 THEN last.count - 2 ELSE 0
       /\ \A i \in 2..(last.count - 1) :
              /\ chain.angleConstraints[i - 1].point1 = i - 2
              /\ chain.angleConstraints[i - 1].point2 = i - 1
              /\ chain.angleConstraints[i - 1].point3 = i
              /\ chain.angleConstraints[i - 1].minAngle = ADiv(MathPI, R(8))
              /\ chain.angleConstraints[i - 1].maxAngle =
                     ASub(MathPI, ADiv(MathPI, R(8)))

\* createChain was called on an empty Chain with a count of 3 or more, a start
\* off the origin and a segment length that is not a whole number
C8_Witness ==
    /\ last.op = "Chain.createChain"
    /\ OnEmptyChain
    /\ last.count >= 3
    /\ last.startX # R(0)
    /\ last.segmentLength = Half
    /\ Len(chain.points) = last.count

\* C9 as stated: on an empty Fabric, createLeg(0, 0, [10, 15], true) yields
\* exactly 2 points at (0, 0) and (10, 0), exactly 1 joint of length 10 between
\* them, the first point fixed, and returns a Target at (10, 20) registered with
\* strength 0.5
C9_LegOfTenFifteen ==
    (/\ last.op = "Fabric.createLeg"
     /\ old.fabric = NewFabric
     /\ last.x = R(0) /\ last.y = R(0)
     /\ last.segments = <<R(10), R(15)>>
     /\ last.fixStart = <<TRUE>>)
    => /\ Len(fabric.points) = 2
       /\ At(fabric.points, 0).position = Vector2D(R(0), R(0))
       /\ At(fabric.points, 1).position = Vector2D(R(10), R(0))
       /\ Len(fabric.joints) = 1
       /\ fabric.joints[1].point1 = 0
       /\ fabric.joints[1].point2 = 1
       /\ fabric.joints[1].length = R(10)
       /\ At(fabric.points, 0).fixed
       /\ heap[last.result + 1].position = Vector2D(R(10), R(20))
       /\ \E t \in DOMAIN fabric.targets :
              /\ fabric.targets[t].target = last.result
              /\ fabric.targets[t].strength = Half

\* the number of entries of the segments list of the createLeg call made
LegSize == Len(last.segments)

\* the index of the first point the createLeg call made added
LegBase == Len(old.fabric.points)

\* C10: for every segments list of n entries, createLeg(x, y, segments,
\* fixStart) adds exactly n points and max(n - 1, 0) joints, the first point
\* fixed iff fixStart (true when omitted) and all other points free.  If n >= 2
\* it registers exactly one target constraint, bound to the last point, at
\* (last.x, last.y + 20) with strength 0.5, and returns that Target.  If n <= 1
\* it registers no target constraint and returns a Target at (x, y) that is not
\* in fabric.targets, so that moving it changes the outcome of no solve.
C10_LegTopology ==
    last.op = "Fabric.createLeg"
    => /\ Len(fabric.points) = LegBase + LegSize
       /\ SubSeq(fabric.points, 1, LegBase) = old.fabric.points
       /\ Len(fabric.joints) =
              Len(old.fabric.joints) + (IF LegSize >= 1 THEN LegSize - 1 ELSE 0)
       /\ SubSeq(fabric.joints, 1, Len(old.fabric.joints)) = old.fabric.joints
       /\ SubSeq(fabric.targets, 1, Len(old.fabric.targets)) = old.fabric.targets
       /\ SubSeq(heap, 1, Len(old.heap)) = old.heap
       /\ \A i \in 0..(LegSize - 1) :
              At(fabric.points, LegBase + i).fixed
                  = (i = 0 /\ ParamDefault(last.fixStart, TRUE))
       /\ LegSize >= 2 =>
              /\ Len(fabric.targets) = Len(old.fabric.targets) + 1
              /\ fabric.targets[Len(fabric.targets)] =
                     [point    |-> LegBase + LegSize - 1,
                      target   |-> last.result,
                      strength |-> Half]
              /\ last.result = Len(old.heap)
              /\ Len(heap) = Len(old.heap) + 1
              /\ heap[last.result + 1].position =
                     Vector2D(At(fabric.points, LegBase + LegSize - 1).position[1],
                              RAdd(At(fabric.points, LegBase + LegSize - 1).position[2],
                                   R(20)))
       /\ LegSize <= 1 =>
              /\ fabric.targets = old.fabric.targets
              /\ last.result = Len(old.heap)
              /\ Len(heap) = Len(old.heap) + 1
              /\ heap[last.result + 1].position = Vector2D(last.x, last.y)
              /\ \A t \in DOMAIN fabric.targets : fabric.targets[t].target # last.result
              /\ \A pos \in Positions, it \in {<<>>, <<1>>} :
                     FabricSolve(fabric, TargetMove(heap, last.result, pos[1], pos[2]), it)
                         = FabricSolve(fabric, heap, it)

\* createLeg was called with a single segment on a fabric that holds a leg whose
\* target pulls its foot
C10_Witness ==
    /\ last.op = "Fabric.createLeg"
    /\ LegSize = 1
    /\ Len(old.fabric.targets) = 1
    /\ FabricSolve(fabric, heap, <<1>>).points # fabric.points
    /\ NoIrr(FabricSolve(fabric, heap, <<1>>).points)

\* the points after every registered target, from the k-th on, has pulled its
\* point from p to p + (target.position - p) * strength, fixed points excepted
RECURSIVE Pulled(_, _, _, _)
Pulled(pts, targets, hp, k) ==
    IF k > Len(targets) THEN pts
    ELSE LET i == targets[k].point
             p == At(pts, i).position
             t == hp[targets[k].target + 1].position
         IN  Pulled(IF At(pts, i).fixed THEN pts
                    ELSE SetPosition(pts, i,
                             VAdd(p, VMultiplyScalar(VSub(t, p), targets[k].strength))),
                    targets, hp, k + 1)

SolveIterations == ParamDefault(last.iterations, DefaultFabricIterations)

\* C11: every Fabric.solve(iterations) call runs the target phase exactly once,
\* before the joints and whatever iterations is: the points it leaves are those
\* the joint passes make of the points pulled once, in registration order, from p
\* to p + (target.position - p) * strength.  solve(0) relaxes no joint: it leaves
\* the pulled points, and a free point bound to a single target of strength 1
\* ends exactly at the target position
C11_TargetPhaseOnceBeforeJoints ==
    last.op = "Fabric.solve" =>
        LET pulled == Pulled(old.fabric.points, old.fabric.targets, old.heap, 1)
        IN  /\ fabric.points =
                   FabricPasses(pulled, old.fabric.joints, 0, SolveIterations)
            /\ SolveIterations = 0 =>
                   /\ fabric.points = pulled
                   /\ \A k \in DOMAIN old.fabric.targets :
                          LET b == old.fabric.targets[k]
                          IN  (/\ Len(old.fabric.targets) = 1
                               /\ b.strength = R(1)
                               /\ ~At(old.fabric.points, b.point).fixed)
                              => At(fabric.points, b.point).position =
                                     old.heap[b.target + 1].position

\* solve(0) moves a free point at (0, 0) onto its single target, of strength 1,
\* at (100, 0)
C11_Witness ==
    /\ last.op = "Fabric.solve"
    /\ last.iterations = <<0>>
    /\ Len(old.fabric.targets) = 1
    /\ old.fabric.targets[1].strength = R(1)
    /\ ~At(old.fabric.points, 0).fixed
    /\ At(old.fabric.points, 0).position = V(0, 0)
    /\ old.heap[1].position = V(100, 0)
    /\ At(fabric.points, 0).position = V(100, 0)

\* the registrations that bind a target to point i
BindingsOf(f, i) == {k \in DOMAIN f.targets : f.targets[k].point = i}

\* C12: the Target that Fabric.setTarget returns is the object the Fabric pulls
\* toward.  setTarget registers the new Target it returns, at the position given;
\* Target.move(x, y) puts that Target at (x, y) and changes no point; and the
\* Fabric.solve that follows a move pulls a free point bound to the moved Target
\* alone from p to p + ((x, y) - p) * strength: toward (x, y), not toward the
\* position given at registration
C12_ReturnedTargetIsThePulledOne ==
    [][/\ last'.op = "Fabric.setTarget" =>
             /\ ~(last'.result \in 0..(Len(heap) - 1))
             /\ heap'[last'.result + 1].position = <<last'.x, last'.y>>
             /\ \A t \in 0..(Len(heap) - 1) : heap'[t + 1] = heap[t + 1]
             /\ fabric'.targets =
                    Append(fabric.targets,
                           [point    |-> last'.point,
                            target   |-> last'.result,
                            strength |-> ParamDefault(last'.strength, R(1))])
             /\ fabric'.points = fabric.points
       /\ last'.op = "Target.move" =>
             /\ heap'[last'.t + 1].position = last'.pos
             /\ fabric' = fabric
             /\ chain' = chain
       /\ (last.op = "Target.move" /\ last'.op = "Fabric.solve"
             /\ last'.iterations = <<0>>) =>
             \A k \in DOMAIN fabric.targets :
                 LET b == fabric.targets[k]
                     p == At(fabric.points, b.point).position
                 IN  (/\ b.target = last.t
                      /\ BindingsOf(fabric, b.point) = {k}
                      /\ ~At(fabric.points, b.point).fixed)
                     => At(fabric'.points, b.point).position =
                            VAdd(p, VMultiplyScalar(VSub(last.pos, p), b.strength))
      ]_vars

\* a target registered at (100, 0) with strength 1 was moved to (6, 8), and the
\* solve(0) that followed put its free point at (6, 8)
C12_Witness ==
    /\ last.op = "Fabric.solve"
    /\ last.iterations = <<0>>
    /\ Len(fabric.targets) = 1
    /\ fabric.targets[1].strength = R(1)
    /\ ~At(fabric.points, 0).fixed
    /\ heap[1].position = V(6, 8)
    /\ At(fabric.points, 0).position = V(6, 8)
    /\ At(old.fabric.points, 0).position = V(0, 0)
    /\ Len(fabric.points) = 1

\* the sequence now is the sequence before with exactly one member appended
OneAppended(before, now) ==
    /\ Len(now) = Len(before) + 1
    /\ \A k \in DOMAIN before : now[k] = before[k]

\* C13: Chain.addDistanceConstraint and Chain.addAngleConstraint throw exactly
\* when one of their index arguments designates no point of the chain (it is
\* negative, or at least points.length); a call that throws leaves points,
\* distanceConstraints and angleConstraints as they were; a call with valid
\* indices does not throw and appends exactly one constraint, on the points named
C13_InvalidIndexThrows ==
    /\ last.op = "Chain.addDistanceConstraint" =>
          LET valid == /\ last.p1Index \in 0..(Len(old.chain.points) - 1)
                       /\ last.p2Index \in 0..(Len(old.chain.points) - 1)
          IN  /\ last.threw <=> ~valid
              /\ ~valid => chain = old.chain
              /\ valid =>
                    /\ chain.points = old.chain.points
                    /\ chain.angleConstraints = old.chain.angleConstraints
                    /\ OneAppended(old.chain.distanceConstraints,
                                   chain.distanceConstraints)
                    /\ chain.distanceConstraints[Len(chain.distanceConstraints)].point1
                           = last.p1Index
                    /\ chain.distanceConstraints[Len(chain.distanceConstraints)].point2
                           = last.p2Index
    /\ last.op = "Chain.addAngleConstraint" =>
          LET valid == /\ last.p1Index \in 0..(Len(old.chain.points) - 1)
                       /\ last.p2Index \in 0..(Len(old.chain.points) - 1)
                       /\ last.p3Index \in 0..(Len(old.chain.points) - 1)
          IN  /\ last.threw <=> ~valid
              /\ ~valid => chain = old.chain
              /\ valid =>
                    /\ chain.points = old.chain.points
                    /\ chain.distanceConstraints = old.chain.distanceConstraints
                    /\ OneAppended(old.chain.angleConstraints, chain.angleConstraints)
                    /\ chain.angleConstraints[Len(chain.angleConstraints)].point1
                           = last.p1Index
                    /\ chain.angleConstraints[Len(chain.angleConstraints)].point2
                           = last.p2Index
                    /\ chain.angleConstraints[Len(chain.angleConstraints)].point3
                           = last.p3Index

\* addDistanceConstraint(0, n) threw on a chain of n >= 2 points that holds
\* constraints, and left it as it was
C13_Witness ==
    /\ last.op = "Chain.addDistanceConstraint"
    /\ last.threw
    /\ last.p1Index = 0
    /\ last.p2Index = Len(old.chain.points)
    /\ Len(old.chain.points) >= 2
    /\ Len(old.chain.distanceConstraints) >= 1
    /\ chain = old.chain

\* every distance constraint from the k-th on solved once, in insertion order
RECURSIVE EachDistanceOnce(_, _, _)
EachDistanceOnce(pts, cs, k) ==
    IF ~NoIrr(pts) \/ k > Len(cs) THEN pts
    ELSE EachDistanceOnce(DistanceConstraintSolve(pts, cs[k]), cs, k + 1)

\* every angle constraint from the k-th on solved once, in insertion order
RECURSIVE EachAngleOnce(_, _, _)
EachAngleOnce(pts, cs, k) ==
    IF ~NoIrr(pts) \/ k > Len(cs) THEN pts
    ELSE EachAngleOnce(AngleConstraintSolve(pts, cs[k]), cs, k + 1)

\* n relaxation passes, each the distance constraints and then the angle ones
RECURSIVE RelaxationPasses(_, _, _)
RelaxationPasses(c, pts, n) ==
    IF ~NoIrr(pts) \/ n = 0 THEN pts
    ELSE RelaxationPasses(c,
             EachAngleOnce(EachDistanceOnce(pts, c.distanceConstraints, 1),
                           c.angleConstraints, 1),
             n - 1)

\* every point integrated once
Integrated ==
    [k \in DOMAIN old.chain.points |->
        PointUpdate(old.chain.points[k], last.dt, old.chain.gravity)]

\* C14: Chain.update(dt, iterations) integrates every point once and then runs
\* exactly iterations relaxation passes, 5 when iterations is omitted; a pass
\* solves every distance constraint once in insertion order and then every angle
\* constraint once in insertion order.  No pass is skipped, and update(dt, 0)
\* integrates only
C14_UpdateIntegratesThenRelaxes ==
    last.op = "Chain.update" =>
        /\ chain.points =
               RelaxationPasses(old.chain, Integrated,
                                ParamDefault(last.iterations, DefaultChainIterations))
        /\ last.iterations = <<>> =>
               chain.points =
                   RelaxationPasses(old.chain,
                       RelaxationPasses(old.chain, Integrated, 1), 4)
        /\ last.iterations = <<0>> => chain.points = Integrated

\* an update with iterations omitted in which the distance constraint moved the
\* pivot and the angle constraint then turned point3 about the moved pivot
C14_Witness ==
    /\ last.op = "Chain.update"
    /\ last.iterations = <<>>
    /\ Len(old.chain.distanceConstraints) = 1
    /\ Len(old.chain.angleConstraints) = 1
    /\ At(old.chain.points, 1).position = V(0, 0)
    /\ At(old.chain.points, 2).position = V(-3, 0)
    /\ At(chain.points, 1).position = V(1, 0)
    /\ At(chain.points, 2).position[1] = R(1)
    /\ At(chain.points, 2).position[2] # R(0)

\* the DistanceConstraint of stiffness 1 on the two points of a joint, with the
\* length of the joint for target distance
EquivalentConstraint(joint) ==
    [point1 |-> joint.point1, point2 |-> joint.point2,
     distance |-> joint.length, stiffness |-> R(1)]

EquivalentChain(f) ==
    [points |-> f.points,
     distanceConstraints |-> [k \in DOMAIN f.joints |-> EquivalentConstraint(f.joints[k])],
     angleConstraints |-> <<>>]

\* C15: relaxing one joint of a Fabric gives the positions that
\* DistanceConstraint.solve() gives with stiffness 1 on the same two points and
\* the same target length, from the same positions and fixed flags; and a
\* Fabric.solve(k) on a Fabric without targets ends with the points that k
\* passes over the equivalent constraints, in the order of the joints, end with
C15_JointIsStiffnessOneConstraint ==
    /\ \A k \in DOMAIN fabric.joints :
          RelaxJoint(fabric.points, fabric.joints[k]) =
              DistanceConstraintSolve(fabric.points,
                                      EquivalentConstraint(fabric.joints[k]))
    /\ (last.op = "Fabric.solve" /\ old.fabric.targets = <<>>) =>
          fabric.points =
              RelaxationPasses(EquivalentChain(old.fabric), old.fabric.points,
                               SolveIterations)

\* a Fabric.solve() with iterations omitted on a Fabric of two joints and no
\* target, both joints having moved their points
C15_Witness ==
    /\ last.op = "Fabric.solve"
    /\ last.iterations = <<>>
    /\ old.fabric.targets = <<>>
    /\ Len(old.fabric.joints) = 2
    /\ \A k \in DOMAIN fabric.points :
          ~fabric.points[k].fixed => fabric.points[k].position # old.fabric.points[k].position
    /\ \E k \in DOMAIN fabric.points : ~fabric.points[k].fixed

\* the points with other masses and body sizes, different from point to point
OtherBodies(pts) ==
    [k \in DOMAIN pts |-> [pts[k] EXCEPT !.mass = RAdd(@, R(k)),
                                         !.bodySize = RMul(@, R(k + 1))]]

\* what the simulation computes of a point
Kinematics(pts) ==
    [k \in DOMAIN pts |-> [position     |-> pts[k].position,
                           prevPosition |-> pts[k].prevPosition,
                           velocity     |-> pts[k].velocity]]

Bodies(pts) == [k \in DOMAIN pts |-> [mass |-> pts[k].mass, bodySize |-> pts[k].bodySize]]

PointFrame(pts) ==
    [k \in DOMAIN pts |-> [fixed |-> pts[k].fixed, mass |-> pts[k].mass,
                           bodySize |-> pts[k].bodySize]]

\* the velocities and previous positions, which integration alone writes
Integration(pts) ==
    [k \in DOMAIN pts |-> [velocity |-> pts[k].velocity,
                           prevPosition |-> pts[k].prevPosition]]

Solvers == {"Chain.update", "Fabric.solve", "DistanceConstraint.solve",
            "AngleConstraint.solve"}

\* C17: Chain.update, Fabric.solve, DistanceConstraint.solve and
\* AngleConstraint.solve write point positions only, and Chain.update the
\* velocities and previous positions too.  After such a call the points, the
\* distance and angle constraints, the joints and the targets are the same
\* members in the same order, every constraint, joint and target names the points
\* it named, with the distance or length, corridor, stiffness and strength it had,
\* every Target is where it was, and every point has the fixed flag it had
C17_SolversWritePositionsOnly ==
    last.op \in Solvers =>
        /\ PointFrame(chain.points) = PointFrame(old.chain.points)
        /\ PointFrame(fabric.points) = PointFrame(old.fabric.points)
        /\ chain.distanceConstraints = old.chain.distanceConstraints
        /\ chain.angleConstraints = old.chain.angleConstraints
        /\ chain.gravity = old.chain.gravity
        /\ fabric.joints = old.fabric.joints
        /\ fabric.targets = old.fabric.targets
        /\ heap = old.heap
        /\ Integration(fabric.points) = Integration(old.fabric.points)
        /\ last.op # "Chain.update" =>
               Integration(chain.points) = Integration(old.chain.points)
        /\ last.op # "Fabric.solve" => fabric.points = old.fabric.points
        /\ last.op = "Fabric.solve" => chain.points = old.chain.points

\* a Fabric.solve that moved a point of a Fabric holding a joint and a target
C17_Witness ==
    /\ last.op = "Fabric.solve"
    /\ Len(old.fabric.joints) >= 1
    /\ Len(old.fabric.targets) >= 1
    /\ fabric.points # old.fabric.points

\* the separation an argument asks for: the argument when one is given, the
\* distance between the two points when it is omitted
AskedSeparation(arg, pts, i1, i2) ==
    IF Len(arg) = 1 THEN arg[1]
    ELSE VDistance(At(pts, i1).position, At(pts, i2).position)

\* C18: the target separation that the DistanceConstraint constructor (called by
\* Chain.addDistanceConstraint) and Fabric.connectPoints store is the distance or
\* length argument whenever one is given, 0 included, and the current separation
\* of the two points only when the argument is omitted
C18_GivenSeparationIsStored ==
    /\ (last.op = "Chain.addDistanceConstraint" /\ ~last.threw) =>
          chain.distanceConstraints[Len(chain.distanceConstraints)].distance =
              AskedSeparation(last.distance, old.chain.points,
                              last.p1Index, last.p2Index)
    /\ last.op = "Fabric.connectPoints" =>
          fabric.joints[Len(fabric.joints)].length =
              AskedSeparation(last.length, old.fabric.points, last.point1, last.point2)

\* every member of the sequence before is in the sequence now, at its place
KeptInPlace(before, now) ==
    /\ Len(now) >= Len(before)
    /\ \A k \in DOMAIN before : now[k] = before[k]

\* C19: point handles are stable.  Chain.addPoint appends the point and returns
\* the index it is stored at, the number of points before the call;
\* Fabric.addPoint appends the point and returns it.  After any call (addPoint,
\* addDistanceConstraint, addAngleConstraint, connectPoints, setTarget,
\* createChain, createLeg, update, solve, Target.move) every point is at the
\* index it had, the same point: no call removes or reorders points, and only
\* update and solve change anything of a point, its position and velocity
C19_PointHandlesStable ==
    /\ last.op = "Chain.addPoint" =>
          /\ last.result = Len(old.chain.points)
          /\ chain.points = Append(old.chain.points,
                                   NewPoint(last.x, last.y, last.options))
          /\ At(chain.points, last.result) = NewPoint(last.x, last.y, last.options)
    /\ last.op = "Fabric.addPoint" =>
          /\ fabric.points = Append(old.fabric.points,
                                    NewPoint(last.x, last.y, last.options))
          /\ At(fabric.points, last.result) = NewPoint(last.x, last.y, last.options)
    /\ KeptInPlace(PointFrame(old.chain.points), PointFrame(chain.points))
    /\ KeptInPlace(PointFrame(old.fabric.points), PointFrame(fabric.points))
    /\ ~(last.op \in Solvers) =>
          /\ KeptInPlace(old.chain.points, chain.points)
          /\ KeptInPlace(old.fabric.points, fabric.points)

\* a createChain that appended its points after a free point that addPoint had
\* stored at index 0, the point being still there
C19_Witness ==
    /\ last.op = "Chain.createChain"
    /\ Len(old.chain.points) = 1
    /\ ~At(old.chain.points, 0).fixed
    /\ Len(chain.points) >= 3
    /\ At(chain.points, 0) = At(old.chain.points, 0)
    /\ At(chain.points, 1).fixed

\* the square of the distance between two positions
DistanceSquared(v, w) ==
    RAdd(RMul(RSub(v[1], w[1]), RSub(v[1], w[1])),
         RMul(RSub(v[2], w[2]), RSub(v[2], w[2])))

\* C20: AngleConstraint.solve(), on three distinct points, changes no point but
\* point3, whatever the state and the fixed flags: point1 and the pivot point2
\* stay where they are.  It moves point3 only when point3 is not fixed, and then
\* point3 is as far from the pivot after the call as before it: a rotation about
\* the pivot (compared wherever the square of the distance is within MaxInt)
C20_AngleSolveRotatesPoint3Only ==
    last.op = "AngleConstraint.solve" =>
        /\ \A i \in 0..(Len(old.chain.points) - 1) :
              i # SolvedAngle.point3 => At(chain.points, i) = At(old.chain.points, i)
        /\ At(old.chain.points, SolvedAngle.point3).fixed =>
              chain.points = old.chain.points
        /\ \/ IsIrr(DistanceSquared(At(chain.points, SolvedAngle.point3).position,
                                     At(chain.points, SolvedAngle.point2).position))
           \/ DistanceSquared(At(chain.points, SolvedAngle.point3).position,
                              At(chain.points, SolvedAngle.point2).position)
                  = DistanceSquared(At(old.chain.points, SolvedAngle.point3).position,
                                    At(old.chain.points, SolvedAngle.point2).position)

\* a solve that turned a free point3 about a free pivot, point1 being free too
C20_Witness ==
    /\ last.op = "AngleConstraint.solve"
    /\ ~At(old.chain.points, SolvedAngle.point1).fixed
    /\ ~At(old.chain.points, SolvedAngle.point2).fixed
    /\ At(chain.points, SolvedAngle.point3).position #
           At(old.chain.points, SolvedAngle.point3).position

\* the receiver of a Vector2D call, before and after it
Receiver == At(chain.points, 0).position
OldReceiver == At(old.chain.points, 0).position

\* C21: Vector2D.divideScalar(0) sets the vector to (0, 0), and no component to
\* Infinity or NaN; divideScalar(s) with s # 0 divides both components by s;
\* normalize() leaves the zero vector (0, 0), its length 0 being taken for 1, and
\* gives any other vector the length 1 and the same direction; each returns the
\* receiver
C21_DivideByZeroGivesZero ==
    /\ last.op = "Vector2D.divideScalar" =>
          /\ last.scalar = R(0) => Receiver = V(0, 0)
          /\ last.scalar # R(0) =>
                Receiver = <<RDiv(OldReceiver[1], last.scalar),
                             RDiv(OldReceiver[2], last.scalar)>>
          /\ VFinite(OldReceiver) => VFinite(Receiver)
          /\ last.returned = "this"
    /\ last.op = "Vector2D.normalize" =>
          /\ OldReceiver = V(0, 0) => Receiver = V(0, 0)
          /\ OldReceiver # V(0, 0) =>
                /\ VLength(Receiver) = R(1)
                /\ VMultiplyScalar(Receiver, VLength(OldReceiver)) = OldReceiver
          /\ last.returned = "this"

\* divideScalar(0) called on a vector that was not the zero vector
C21_Witness ==
    /\ last.op = "Vector2D.divideScalar"
    /\ last.scalar = R(0)
    /\ OldReceiver # V(0, 0)
    /\ Receiver = V(0, 0)


\* the arms of an angle constraint among the points pts, from the pivot
Arm1(pts, c) == VSub(At(pts, c.point1).position, At(pts, c.point2).position)
Arm3(pts, c) == VSub(At(pts, c.point3).position, At(pts, c.point2).position)

\* the side of the ray pivot->point1 that point3 is on: positive when point3 is
\* counter-clockwise from point1, negative when it is clockwise
Orientation(pts, c) ==
    RSub(RMul(Arm1(pts, c)[1], Arm3(pts, c)[2]), RMul(Arm1(pts, c)[2], Arm3(pts, c)[1]))

\* the angle at the pivot is above maxAngle, or below minAngle
AboveCorridor(pts, c) ==
    /\ IsFinite(CosAtPivot(pts, c))
    /\ RLt(CosAtPivot(pts, c), CosCeiling(c.maxAngle))

BelowCorridor(pts, c) ==
    /\ IsFinite(CosAtPivot(pts, c))
    /\ RLt(CosFloor(c.minAngle), CosAtPivot(pts, c))

\* solve() was called on an angle constraint of stiffness in (0, 1] with both
\* arms non-zero and point3 free
AngleSolveActs ==
    /\ last.op = "AngleConstraint.solve"
    /\ ~ArmOnPivot(old.chain.points, SolvedAngle)
    /\ ~At(old.chain.points, SolvedAngle.point3).fixed
    /\ RLt(R(0), SolvedAngle.stiffness)
    /\ RLe(SolvedAngle.stiffness, R(1))

\* the angle after the call is no farther beyond the violated bound than before:
\* not larger when it was above maxAngle, not smaller when it was below minAngle
\* (an angle of [0, pi] is larger when its cosine is smaller)
NoFartherFromCorridor ==
    /\ AboveCorridor(old.chain.points, SolvedAngle)
        => RLe(CosAtPivot(old.chain.points, SolvedAngle),
               CosAtPivot(chain.points, SolvedAngle))
    /\ BelowCorridor(old.chain.points, SolvedAngle)
        => RLe(CosAtPivot(chain.points, SolvedAngle),
               CosAtPivot(old.chain.points, SolvedAngle))

\* C22: when the angle at the pivot lies outside [minAngle, maxAngle], both arms
\* are non-zero, point3 is free and stiffness is in (0, 1], solve() leaves the
\* angle no farther from the violated bound than it was, whether point3 is
\* clockwise or counter-clockwise from the ray pivot->point1
C22_SolveMovesTowardCorridor ==
    (AngleSolveActs /\ ~IsIrr(CosAtPivot(chain.points, SolvedAngle)))
    => NoFartherFromCorridor

\* the same with point3 counter-clockwise from point1 or on the line through
\* the pivot and point1
C22_CounterClockwiseTowardCorridor ==
    (/\ AngleSolveActs
     /\ ~IsIrr(CosAtPivot(chain.points, SolvedAngle))
     /\ RLe(R(0), Orientation(old.chain.points, SolvedAngle)))
    => NoFartherFromCorridor

\* solve() turned point3, which was clockwise from point1 and above maxAngle
C22_ClockwiseCase ==
    /\ AngleSolveActs
    /\ AboveCorridor(old.chain.points, SolvedAngle)
    /\ RLt(Orientation(old.chain.points, SolvedAngle), R(0))
    /\ chain.points # old.chain.points


\* the bound of the corridor that the angle at the pivot violates
TargetOf(pts, c) == IF BelowCorridor(pts, c) THEN c.minAngle ELSE c.maxAngle

\* the cosine of the angle at the pivot is less than 0.001 away from the cosine
\* of the violated bound
InDeadBand(pts, c) ==
    RLt(RAbs(RSub(CosAtPivot(pts, c), MathCos(TargetOf(pts, c)))), Q(1, 1000))

\* the pivot plus the vector pivot->point3 rotated by
\* (targetAngle - angle) * stiffness
Turned(pts, c, rot) ==
    VAdd(At(pts, c.point2).position,
         <<RSub(RMul(Arm3(pts, c)[1], rot[1]), RMul(Arm3(pts, c)[2], rot[2])),
           RAdd(RMul(Arm3(pts, c)[1], rot[2]), RMul(Arm3(pts, c)[2], rot[1]))>>)

TurnedBySolve(pts, c) ==
    Turned(pts, c, RotationOf(TargetOf(pts, c), CalculateAngle(pts, c), c.stiffness))

\* the angle is outside the corridor, both arms are non-zero and point3 is free
OutsideAndFree(pts, c) ==
    /\ AboveCorridor(pts, c) \/ BelowCorridor(pts, c)
    /\ ~ArmOnPivot(pts, c)
    /\ ~At(pts, c.point3).fixed

\* C23 as stated: solve() sets point3 to the pivot plus the rotated vector
\* whenever the angle is outside the corridor, both arms are non-zero and point3
\* is free, and changes nothing in every other case (compared wherever the
\* rotation is one the rationals hold)
C23_SolveActivatesWheneverOutside ==
    last.op = "AngleConstraint.solve"
    => IF OutsideAndFree(old.chain.points, SolvedAngle)
       THEN \/ VHasIrr(TurnedBySolve(old.chain.points, SolvedAngle))
            \/ chain.points = SetPosition(old.chain.points, SolvedAngle.point3,
                                          TurnedBySolve(old.chain.points, SolvedAngle))
       ELSE chain.points = old.chain.points

\* C23: solve() sets point3 to the pivot plus the vector pivot->point3 rotated by
\* (targetAngle - angle) * stiffness when the angle is outside the corridor, both
\* arms are non-zero, point3 is free and the cosine of the angle differs from the
\* cosine of the violated bound by 0.001 or more; in every other case, a cosine
\* closer than 0.001 to that of the bound included, it changes nothing
C23_SolveActivatesOutsideDeadBand ==
    last.op = "AngleConstraint.solve"
    => IF /\ OutsideAndFree(old.chain.points, SolvedAngle)
          /\ ~InDeadBand(old.chain.points, SolvedAngle)
       THEN chain.points = SetPosition(old.chain.points, SolvedAngle.point3,
                                       TurnedBySolve(old.chain.points, SolvedAngle))
       ELSE chain.points = old.chain.points

\* solve() was called with the angle above maxAngle by less than 0.001 in the
\* cosine, on a free point3 with a rotation that would have moved it
C23_Witness ==
    /\ last.op = "AngleConstraint.solve"
    /\ OutsideAndFree(old.chain.points, SolvedAngle)
    /\ InDeadBand(old.chain.points, SolvedAngle)
    /\ ~VHasIrr(TurnedBySolve(old.chain.points, SolvedAngle))
    /\ TurnedBySolve(old.chain.points, SolvedAngle)
         # At(old.chain.points, SolvedAngle.point3).position
    /\ chain.points = old.chain.points


\* C24: after k calls of update(dt, iterations) with the same dt on a chain whose
\* points started at rest, every free point has the velocity k * gravity * dt,
\* whatever the constraints did to its position, every fixed point still has the
\* velocity zero it started with, and the gravity of the chain is what it was
C24_VelocityIsTicksTimesGravity ==
    last.op = "Chain.update" =>
        /\ \A k \in DOMAIN chain.points :
              chain.points[k].velocity =
                  IF chain.points[k].fixed THEN V(0, 0)
                  ELSE VMultiplyScalar(VMultiplyScalar(chain.gravity, last.dt),
                                       R(last.ticks))
        /\ chain.gravity = old.chain.gravity

\* the second update of a chain under gravity, in which the constraints moved a
\* free point away from where the integration had put it
C24_Witness ==
    /\ last.op = "Chain.update"
    /\ last.ticks = 2
    /\ chain.gravity # V(0, 0)
    /\ \E k \in DOMAIN chain.points :
          /\ ~chain.points[k].fixed
          /\ chain.points[k].velocity # V(0, 0)
          /\ chain.points[k].position #
                 VAdd(chain.points[k].prevPosition,
                      VMultiplyScalar(chain.points[k].velocity, last.dt))


\* C25: createChain with count = 0 on an empty Chain adds no point and no
\* constraint
C25_CountZeroBuildsNothing ==
    (/\ last.op = "Chain.createChain"
     /\ OnEmptyChain
     /\ last.count = 0)
    => /\ chain.points = <<>>
       /\ chain.distanceConstraints = <<>>
       /\ chain.angleConstraints = <<>>

\* createChain with count = 0 on an empty Chain left one fixed point at the start
C25_CountZeroLeavesAnchor ==
    /\ last.op = "Chain.createChain"
    /\ OnEmptyChain
    /\ last.count = 0
    /\ Len(chain.points) = 1
    /\ At(chain.points, 0).fixed
    /\ At(chain.points, 0).position = Vector2D(last.startX, last.startY)
    /\ chain.distanceConstraints = <<>>
    /\ chain.angleConstraints = <<>>


\* twice the midpoint of the two ends of a constraint or joint among the points pts
EndsSum(pts, c) == VAdd(At(pts, c.point1).position, At(pts, c.point2).position)

\* the move of point i from the points pts to the points qts
MoveOf(pts, qts, i) == VSub(At(qts, i).position, At(pts, i).position)

\* the vector v is along the line through the two ends of c among the points pts
AlongTheLine(pts, c, v) ==
    LET delta == VSub(At(pts, c.point2).position, At(pts, c.point1).position)
    IN  RMul(v[1], delta[2]) = RMul(v[2], delta[1])

\* from the points pts to the points qts the two ends of c moved by opposite
\* offsets along the line joining them, all the other points stayed, and the
\* midpoint of the two ends is where it was (compared wherever the sums are
\* within MaxInt)
OppositeOffsets(pts, qts, c) ==
    \/ ~NoIrr(qts)
    \/ VHasIrr(EndsSum(qts, c))
    \/ /\ MoveOf(pts, qts, c.point1) =
              VMultiplyScalar(MoveOf(pts, qts, c.point2), R(-1))
       /\ AlongTheLine(pts, c, MoveOf(pts, qts, c.point2))
       /\ EndsSum(qts, c) = EndsSum(pts, c)
       /\ \A i \in 0..(Len(pts) - 1) :
              i \notin {c.point1, c.point2} => At(qts, i) = At(pts, i)

\* C26: when both ends are free, DistanceConstraint.solve() and the relaxation of
\* a joint of a Fabric move the two points by equal and opposite offsets along
\* the line joining them, so that the midpoint of the pair is the same after the
\* call as before it
C26_MidpointPreserved ==
    /\ (last.op = "DistanceConstraint.solve" /\ BothFree(old.chain.points, SolvedDistance))
       => OppositeOffsets(old.chain.points, chain.points, SolvedDistance)
    /\ \A k \in DOMAIN chain.distanceConstraints :
          BothFree(chain.points, chain.distanceConstraints[k])
          => OppositeOffsets(chain.points,
                 DistanceConstraintSolve(chain.points, chain.distanceConstraints[k]),
                 chain.distanceConstraints[k])
    /\ \A j \in DOMAIN fabric.joints :
          BothFree(fabric.points, fabric.joints[j])
          => OppositeOffsets(fabric.points,
                 RelaxJoint(fabric.points, fabric.joints[j]), fabric.joints[j])

\* solve() moved both ends of a constraint of stiffness 1/2 whose ends are free
C26_Witness ==
    /\ last.op = "DistanceConstraint.solve"
    /\ BothFree(old.chain.points, SolvedDistance)
    /\ SolvedDistance.stiffness = Half
    /\ At(chain.points, SolvedDistance.point1).position
           # At(old.chain.points, SolvedDistance.point1).position
    /\ At(chain.points, SolvedDistance.point2).position
           # At(old.chain.points, SolvedDistance.point2).position

\* the separation of the two ends of c among the points pts
Separation(pts, c) == VDistance(At(pts, c.point1).position, At(pts, c.point2).position)

\* the two ends of c are not both fixed and not in the same place
Correctable(pts, c) ==
    /\ ~Coincident(pts, c)
    /\ ~(At(pts, c.point1).fixed /\ At(pts, c.point2).fixed)

\* among the points qts the two ends are at the separation asked for, and qts is
\* what the next correction qqts leaves (compared wherever the separation is
\* within MaxInt)
SatisfiedBy(qts, c, separation, qqts) ==
    \/ ~NoIrr(qts)
    \/ IsIrr(Separation(qts, c))
    \/ /\ Separation(qts, c) = separation
       /\ qqts = qts

\* C27: one DistanceConstraint.solve() with stiffness 1, or one relaxation of a
\* joint of a Fabric, on ends that are not in the same place and not both fixed,
\* leaves the two ends at the target separation exactly, and a second call in
\* the state it leaves changes nothing
C27_FullStiffnessSatisfiesAtOnce ==
    /\ (/\ last.op = "DistanceConstraint.solve"
        /\ SolvedDistance.stiffness = R(1)
        /\ Correctable(old.chain.points, SolvedDistance))
       => SatisfiedBy(chain.points, SolvedDistance, SolvedDistance.distance,
                      DistanceConstraintSolve(chain.points, SolvedDistance))
    /\ \A j \in DOMAIN fabric.joints :
          Correctable(fabric.points, fabric.joints[j])
          => SatisfiedBy(RelaxJoint(fabric.points, fabric.joints[j]), fabric.joints[j],
                         fabric.joints[j].length,
                         RelaxJoint(RelaxJoint(fabric.points, fabric.joints[j]),
                                    fabric.joints[j]))

\* solve() with stiffness 1 moved an end of a constraint that was not at its
\* target separation, one end fixed or none
C27_Witness ==
    /\ last.op = "DistanceConstraint.solve"
    /\ SolvedDistance.stiffness = R(1)
    /\ Correctable(old.chain.points, SolvedDistance)
    /\ Separation(old.chain.points, SolvedDistance) # SolvedDistance.distance
    /\ Separation(chain.points, SolvedDistance) = SolvedDistance.distance
    /\ chain.points # old.chain.points


(***************************************************************************)
(* Properties of the hooks.  A property of one event reads the event in    *)
(* last, the hook as it was before the event in last.before, and the hook  *)
(* as the event left it in hook.                                           *)
(***************************************************************************)
\* C28: once the hook reports isPaused = true, a frame makes no call of the
\* callback, so that no Chain.update and no Fabric.solve runs; at every moment at
\* most one request of the hook is pending in the browser, and none once the
\* component is unmounted
C28_PausedStopsTheLoop ==
    /\ (last.op = "frame" /\ last.before.rendered.isPaused) => last.calls = <<>>
    /\ hook # NoHook => Len(hook.queue) <= 1
    /\ (hook # NoHook /\ ~hook.mounted) => hook.queue = <<>>

\* a frame called the callback although the latest render had read, and
\* returned, isPaused = true
C28_CalledWhileReportedPaused ==
    /\ last.op = "frame"
    /\ last.before.rendered.isPaused
    /\ last.before.mounted
    /\ last.calls # <<>>

\* C29, the interval: frameIntervalRef holds 1000 / fps ms, fps being the option
\* of the render whose effects ran last or, if it came later, the argument of
\* setFps; nothing else writes it
FrameIntervalFollowsFps ==
    IF last.op = "init" THEN hook.frameIntervalRef = Q(1000, hook.rendered.fps)
    ELSE IF last.op = "setFps" THEN hook.frameIntervalRef = Q(1000, last.newFps)
    ELSE IF last.op = "effects" /\ last.before.mounted /\ Changed(last.before, "fps")
    THEN hook.frameIntervalRef = Q(1000, hook.rendered.fps)
    ELSE hook.frameIntervalRef = last.before.frameIntervalRef

\* the elapsed time a frame adds to the accumulator, in ms: the time since the
\* frame before, at most 100
AddedTime == RMin(R(last.gap), R(100))

\* C29: for every fps > 0, a frame whose animate is not paused adds the elapsed
\* time, capped at 100 ms, to the accumulator, calls the callback once per whole
\* frame interval (1000 / fps ms) that the accumulator holds, every time with
\* the argument 1 / fps seconds, and leaves an accumulator that is >= 0 and less
\* than the frame interval; the catch-up loop ends; the first frame after the
\* mount, and a frame whose animate is paused, call nothing and leave the
\* accumulator as it is
C29_FixedTimestepAccumulator ==
    hook # NoHook =>
        /\ FrameIntervalFollowsFps
        /\ RLt(R(0), hook.frameIntervalRef)
        /\ (last.op = "frame" /\ Len(last.before.queue) = 1) =>
              IF last.before.previousTimeRef = <<>> \/ last.before.queue[1].isPaused
              THEN /\ last.calls = <<>>
                   /\ hook.accumulatedTimeRef = last.before.accumulatedTimeRef
              ELSE /\ hook.accumulatedTimeRef =
                          RSub(RAdd(last.before.accumulatedTimeRef, AddedTime),
                               RMul(R(Len(last.calls)), hook.frameIntervalRef))
                   /\ RLe(R(0), hook.accumulatedTimeRef)
                   /\ RLt(hook.accumulatedTimeRef, hook.frameIntervalRef)
                   /\ \A k \in DOMAIN last.calls :
                          last.calls[k].deltaTime = RDiv(hook.frameIntervalRef, R(1000))

\* a frame that came 250 ms after the one before it: the accumulator took 100 ms
\* and the callback was called several times, a remainder being left
C29_Witness ==
    /\ last.op = "frame"
    /\ last.gap = 250
    /\ last.before.previousTimeRef # <<>>
    /\ Len(last.calls) >= 2
    /\ hook.accumulatedTimeRef # R(0)
    /\ hook.accumulatedTimeRef # last.before.accumulatedTimeRef

\* C30: every call of the callback that a frame makes runs Chain.update or
\* Fabric.solve with the iterations option of the most recent render
C30_TickUsesLatestIterations ==
    last.op = "frame" =>
        \A k \in DOMAIN last.calls :
            last.calls[k].iterations = last.before.rendered.iterations

\* a frame called the callback with the iterations of an earlier render, the
\* effects of the latest render having run
C30_StaleIterations ==
    /\ last.op = "frame"
    /\ ~last.before.pendingEffects
    /\ last.before.mounted
    /\ \E k \in DOMAIN last.calls :
          last.calls[k].iterations # last.before.rendered.iterations

=============================================================================
